---------------------------- MODULE Spec2Model ----------------------------
(***************************************************************************)
(* A model of the atm0s-sdn core:                                          *)
(*   - the key-value local agent, SimpleLocalStorage                       *)
(*     (packages/services/key_value/src/behavior/simple_local.rs);         *)
(*   - the TCP connection channel, TcpConnectionSender / Receiver          *)
(*     (packages/transports/tcp/src/connection.rs);                        *)
(*   - the virtual network fabric, VnetEarth                               *)
(*     (packages/transports/vnet/src/earth.rs);                            *)
(*   - the mock transport, MockTransport and its connector                 *)
(*     (packages/network/src/mock/transport.rs).                           *)
(* Each subsystem has its own next-state relation and specification over   *)
(* the module's variables; the variables of the other subsystems stay at   *)
(* their initial values.                                                   *)
(***************************************************************************)
EXTENDS Integers, Sequences, FiniteSets, TLC

VARIABLES
    \* ---- SimpleLocalStorage (simple_local.rs:58-68) ----
    timer_now,      \* timer.now_ms(), the injected clock
    req_id_seed,    \* AtomicU64 request id counter
    version_seed,   \* u16 version seed
    data,           \* HashMap<KeyId, KeySlotData>: a function on the keys present
    subscribe_map,  \* field `subscribe`: HashMap<KeyId, KeySlotSubscribe>
    output_events,  \* VecDeque<LocalStorageAction>
    get_queue,      \* HashMap<ReqId, KeySlotGetCallback>
    cb_results,     \* per get() callback (in issue order): the results it was called with
    fx,             \* what the latest public call did besides the fields: its return
                    \* value, its awake_notify.notify() calls, its handler invocations
    set_acked_at,   \* history: per key, the time a SetAck first acked the latest set
    get_issued,     \* history: per get() callback, the clock and timeout_ms of the call
    \* ---- version generation on its own (simple_local.rs:90-94) ----
    ver_now,        \* timer.now_ms(), a u64 at full width
    ver_seed,       \* version_seed
    ver_log,        \* history: the clock and the version of every gen_version() call
    \* ---- TCP connection (connection.rs) ----
    tcp_now,        \* timer.now_ms()
    r_queue,        \* the unbounded channel reliable_sender -> r_rx
    unr_queue,      \* the bounded channel unreliable_sender -> unr_rx
    task,           \* the sending task: "start" before its first Ping, "loop" in its
                    \* select loop, "done" once it has returned or was cancelled
    sender_alive,   \* the TcpConnectionSender has not been dropped
    wire_out,       \* the frames written to the socket, in order
    poll_ret,       \* what poll() did last: <<>> before any call, <<"Pending">> when
                    \* it went on to read the next frame, or the result it returned
    send_seq,       \* history: the number of send() calls, which tags each message
    socket,         \* the TcpStream: "open", "eof" once a read has met the end of the
                    \* stream, or "shutdown" after shutdown(Shutdown::Both)
    \* ---- virtual network fabric, VnetEarth (earth.rs) ----
    conn_id_seed,   \* AtomicU64 counter of connection ids
    ports,          \* RwLock<HashMap<u64, Socket>>: a function on the registered ports
    listeners,      \* every VnetListener made so far: whether its receiver still
                    \* exists, and the events sent on its channel, in order
    connections,    \* HashMap<ConnId, (NodeId, NodeId)>
    attempts,       \* the tasks spawned by create_outgoing, one per connection attempt
    outgoing_ret,   \* what the latest create_outgoing() did: <<>> before any call,
                    \* its return value, or <<"panic">>
    calls,          \* per thread: how far its create_outgoing() call has come, with
                    \* the arguments and the ids it holds
    allocated,      \* history: the ConnIds made by create_outgoing() calls, in order
    \* ---- mock transport (network/src/mock/transport.rs) ----
    mock_conn_id,   \* Arc<AtomicU32> shared by the transport and its connectors
    mock_output,    \* Arc<Mutex<VecDeque<MockOutput>>>
    connectors,     \* the number of connector handles made by connector()
    connect_log     \* history: the connector, arguments and result of every
                    \* connect_to() call, in order

kv_vars == <<timer_now, req_id_seed, version_seed, data, subscribe_map, output_events,
             get_queue, cb_results, fx, set_acked_at, get_issued>>
ver_vars == <<ver_now, ver_seed, ver_log>>
tcp_vars == <<tcp_now, r_queue, unr_queue, task, sender_alive, wire_out, poll_ret, send_seq,
              socket>>
vnet_vars == <<conn_id_seed, ports, listeners, connections, attempts, outgoing_ret>>
conc_vars == <<calls, allocated>>
mock_vars == <<mock_conn_id, mock_output, connectors, connect_log>>
vars == <<kv_vars, ver_vars, tcp_vars, vnet_vars, conc_vars, mock_vars>>

----------------------------------------------------------------------------
(* Bounds of the model *)

\* the clock runs over 0..MaxNow
MaxNow == 2
\* request ids handed out in one run
MaxReq == 3
\* actions waiting in output_events
MaxQueue == 2
\* request ids and clock of the run that makes every call
MaxReqAll == 2
MaxNowAll == 1
\* request ids of the run on data and subscribe slots together
MaxReqSlots == 4
\* gen_version() calls in a run of the version generator
MaxVerLog == 3
\* the TCP connection: send() calls, frames written, events waiting in the
\* reliable queue, clock
MaxSend == 3
MaxWire == 3
MaxRQueue == 2
MaxTcpNow == 1
\* how far the clock of a round-trip run moves on either side of a multiple of 2^16
RttWindow == 2
\* the fabric: connection ids handed out (two per attempt), listeners made
MaxConnIdSeed == 4
MaxListeners == 2
\* SpecConc: the value the connection id counter may reach
MaxConcSeed == 4
\* SpecMock: connector handles made, connect_to() calls
MaxConnectors == 2
MaxConnects == 3

(* Configuration and program constants *)

\* sync_each_ms given to SimpleLocalStorage::new
SyncEachMs == 1
\* unreliable_queue_size given to TcpConnectionSender::new
UnreliableQueueSize == 1
\* version_seed is a u16
U16Mod == 65536

\* the keys the host uses
Keys == {1, 2}
\* (value, ex) arguments of set()
SetInputs == {<<"a", <<>>>>, <<"b", <<7>>>>}
\* (ex, handler) arguments of subscribe()
SubInputs == {<<<<>>, "h1">>, <<<<7>>, "h2">>}
\* timeout_ms arguments of get(); -1 is u64::MAX (see add_u64)
TimeoutInputs == {1, -1}
\* nodes that events come from
Nodes == {2, 3}

\* Option<T>: None is <<>>, Some(x) is <<x>>
None == <<>>
Some(x) == <<x>>

Range(s) == {s[i] : i \in 1..Len(s)}
\* the orders in which a HashMap over the keys may be iterated
KeyOrders == {s \in [1..Cardinality(Keys) -> Keys] : Range(s) = Keys}

RECURSIVE Concat(_)
Concat(ss) == IF ss = <<>> THEN <<>> ELSE Head(ss) \o Concat(Tail(ss))

Restrict(f, S) == [x \in S |-> f[x]]
Insert(f, k, v) == [x \in DOMAIN f \cup {k} |-> IF x = k THEN v ELSE f[x]]

----------------------------------------------------------------------------
(* SimpleLocalStorage *)

\* `a | b` on unsigned integers
RECURSIVE BitOr(_, _)
BitOr(a, b) ==
    IF a = 0 THEN b
    ELSE IF b = 0 THEN a
    ELSE (IF a % 2 = 1 \/ b % 2 = 1 THEN 1 ELSE 0) + 2 * BitOr(a \div 2, b \div 2)

\* A u64 at full width is its four 16-bit limbs, the most significant first.
\* `x << 16` on a u64: the top limb is shifted out
shl16_u64(x) == <<x[2], x[3], x[4], 0>>
\* `x | s` for a u16 s widened to u64
or_u16(x, s) == <<x[1], x[2], x[3], BitOr(x[4], s)>>
\* `a < b` on u64
lt_u64(a, b) ==
    \E i \in 1..4 : a[i] < b[i] /\ \A j \in 1..(i - 1) : a[j] = b[j]
\* the limbs of a clock value below 2^31, and the integer of a u64 below 2^31
int_limbs(n) == <<0, 0, n \div U16Mod, n % U16Mod>>
limbs_int(x) == x[3] * U16Mod + x[4]

\* Where only u64 values close to 0 and close to 2^64 occur, a u64 is written as
\* an integer: n for n, and -n for 2^64 - n (u64::MAX is -1).
\* `a + b` on u64: whether it overflows, and the wrapped sum
add_u64(a, b) ==
    [overflow |-> (a < 0 \/ b < 0) /\ (a + b >= 0 \/ (a < 0 /\ b < 0)), sum |-> a + b]
\* `a >= b` on u64
ge_u64(a, b) == IF (a < 0) = (b < 0) THEN a >= b ELSE a < 0

\* RouteRule::ToKey(key as u32); the keys of the model are below 2^32
ToKey(key) == <<"ToKey", key>>
ToNode(node) == <<"ToNode", node>>

LocalStorageAction(event, rule) == [ev |-> event, rule |-> rule]

EvSet(req, key, value, version, ex) ==
    [type |-> "Set", req |-> req, key |-> key, value |-> value, version |-> version, ex |-> ex]
EvGet(req, key) == [type |-> "Get", req |-> req, key |-> key]
EvDel(req, key, version) == [type |-> "Del", req |-> req, key |-> key, version |-> version]
EvSub(req, key, ex) == [type |-> "Sub", req |-> req, key |-> key, ex |-> ex]
EvUnsub(req, key) == [type |-> "Unsub", req |-> req, key |-> key]
EvOnKeySetAck(req) == [type |-> "OnKeySetAck", req |-> req]
EvOnKeyDelAck(req) == [type |-> "OnKeyDelAck", req |-> req]

\* the effects of a call that returns ret, notifies n times and calls the handlers hs
Fx(ret, n, hs) == [ret |-> ret, notified |-> n, handler |-> hs]
Unit == <<"unit">>

\* a faulty gen_req_id: the seed is not moved on
gen_req_id_stuck(seed) == [id |-> seed, seed |-> seed]

\* fn gen_req_id: the id handed out, and the seed after it
gen_req_id(seed) == [id |-> seed, seed |-> seed + 1]

\* a faulty gen_version: the seed is not moved on
gen_version_stuck(now, seed) ==
    [version |-> or_u16(shl16_u64(now), seed), seed |-> seed]

\* fn gen_version: the version, and the seed after it
gen_version(now, seed) ==
    [version |-> or_u16(shl16_u64(now), seed), seed |-> (seed + 1) % U16Mod]
\* gen_version at the clock values of the key-value runs (below 2^15), as integers
gen_version_int(now, seed) ==
    LET v == gen_version(int_limbs(now), seed)
    IN  [version |-> limbs_int(v.version), seed |-> v.seed]

Init_kv ==
    /\ timer_now = 0
    /\ req_id_seed = 0
    /\ version_seed = 0
    /\ data = <<>>
    /\ subscribe_map = <<>>
    /\ output_events = <<>>
    /\ get_queue = <<>>
    /\ cb_results = <<>>
    /\ fx = Fx(Unit, 0, <<>>)
    /\ set_acked_at = [k \in Keys |-> None]
    /\ get_issued = <<>>

Init_ver ==
    /\ ver_now = int_limbs(0)
    /\ ver_seed = 0
    /\ ver_log = <<>>

Init_tcp ==
    /\ tcp_now = 0
    /\ r_queue = <<>>
    /\ unr_queue = <<>>
    /\ task = "start"
    /\ sender_alive = TRUE
    /\ wire_out = <<>>
    /\ poll_ret = <<>>
    /\ send_seq = 0
    /\ socket = "open"

Init_vnet ==
    /\ conn_id_seed = 0
    /\ ports = <<>>
    /\ listeners = <<>>
    /\ connections = <<>>
    /\ attempts = <<>>
    /\ outgoing_ret = <<>>

\* the threads that call create_outgoing
Threads == {1, 2}
idle == [pc |-> "idle", from_port |-> 0, to_node |-> 0, to_port |-> 0,
         conn_id_out |-> <<>>, conn_id_in |-> <<>>]

Init_conc ==
    /\ calls = [th \in Threads |-> idle]
    /\ allocated = <<>>

\* MockTransport::new; an AtomicU32 is its two 16-bit limbs, the upper first
Init_mock ==
    /\ mock_conn_id = <<0, 0>>
    /\ mock_output = <<>>
    /\ connectors = 0
    /\ connect_log = <<>>

Init == Init_kv /\ Init_ver /\ Init_tcp /\ Init_vnet /\ Init_conc /\ Init_mock

\* the clock moves on (utils::Timer is monotonic)
timer_advance ==
    /\ timer_now' = timer_now + 1
    /\ UNCHANGED <<req_id_seed, version_seed, data, subscribe_map, output_events,
                   get_queue, cb_results, fx, set_acked_at, get_issued>>

\* pub fn set
set(key, value, ex) ==
    LET r == gen_req_id(req_id_seed)
        v == gen_version_int(timer_now, version_seed)
    IN  /\ req_id_seed' = r.seed
        /\ version_seed' = v.seed
        /\ data' = Insert(data, key, [value |-> Some(value), ex |-> ex, version |-> v.version,
                                      last_sync |-> 0, acked |-> FALSE])
        /\ output_events' = Append(output_events,
                LocalStorageAction(EvSet(r.id, key, value, v.version, ex), ToKey(key)))
        /\ fx' = Fx(Unit, 1, <<>>)
        /\ set_acked_at' = [set_acked_at EXCEPT ![key] = None]
        /\ UNCHANGED <<timer_now, subscribe_map, get_queue, cb_results, get_issued>>

\* pub fn get: the callback is identified by its place in cb_results.
\* `timer.now_ms() + timeout_ms` is a plain u64 addition: when it overflows, a
\* build with overflow checks panics there (after gen_req_id, before the insert)
\* and a build without them stores the wrapped sum.
get(key, timeout_ms, overflow_checks) ==
    LET r == gen_req_id(req_id_seed)
        callback == Len(cb_results) + 1
        ts == add_u64(timer_now, timeout_ms)
    IN  /\ req_id_seed' = r.seed
        /\ cb_results' = Append(cb_results, <<>>)
        /\ get_issued' = Append(get_issued, [now |-> timer_now, timeout_ms |-> timeout_ms])
        /\ IF ts.overflow /\ overflow_checks
           THEN /\ fx' = Fx(<<"panic">>, 0, <<>>)
                /\ UNCHANGED <<get_queue, output_events>>
           ELSE /\ get_queue' = Insert(get_queue, r.id,
                        [timeout_after_ts |-> ts.sum, callback |-> callback])
                /\ output_events' = Append(output_events,
                        LocalStorageAction(EvGet(r.id, key), ToKey(key)))
                /\ fx' = Fx(Unit, 1, <<>>)
        /\ UNCHANGED <<timer_now, version_seed, data, subscribe_map, set_acked_at>>

\* a faulty del: it does not notify the awaker
del_silent(key) ==
    LET r == gen_req_id(req_id_seed)
    IN  /\ req_id_seed' = r.seed
        /\ IF key \in DOMAIN data
           THEN /\ data' = [data EXCEPT ![key].value = None, ![key].last_sync = 0,
                                        ![key].acked = FALSE]
                /\ output_events' = Append(output_events,
                        LocalStorageAction(EvDel(r.id, key, data[key].version), ToKey(key)))
                /\ set_acked_at' = [set_acked_at EXCEPT ![key] = None]
           ELSE UNCHANGED <<data, output_events, set_acked_at>>
        /\ fx' = Fx(Unit, 0, <<>>)
        /\ UNCHANGED <<timer_now, version_seed, subscribe_map, get_queue, cb_results,
                       get_issued>>

\* a faulty del: it stamps the slot and the Del with a new version
del_fresh_version(key) ==
    LET r == gen_req_id(req_id_seed)
        v == gen_version_int(timer_now, version_seed)
    IN  /\ req_id_seed' = r.seed
        /\ IF key \in DOMAIN data
           THEN /\ version_seed' = v.seed
                /\ data' = [data EXCEPT ![key].value = None, ![key].last_sync = 0,
                                        ![key].acked = FALSE, ![key].version = v.version]
                /\ output_events' = Append(output_events,
                        LocalStorageAction(EvDel(r.id, key, v.version), ToKey(key)))
                /\ fx' = Fx(Unit, 1, <<>>)
                /\ set_acked_at' = [set_acked_at EXCEPT ![key] = None]
           ELSE /\ fx' = Fx(Unit, 0, <<>>)
                /\ UNCHANGED <<data, output_events, set_acked_at, version_seed>>
        /\ UNCHANGED <<timer_now, subscribe_map, get_queue, cb_results, get_issued>>

\* pub fn del: the request id is taken before the slot is looked up
del(key) ==
    LET r == gen_req_id(req_id_seed)
    IN  /\ req_id_seed' = r.seed
        /\ IF key \in DOMAIN data
           THEN /\ data' = [data EXCEPT ![key].value = None, ![key].last_sync = 0,
                                        ![key].acked = FALSE]
                /\ output_events' = Append(output_events,
                        LocalStorageAction(EvDel(r.id, key, data[key].version), ToKey(key)))
                /\ fx' = Fx(Unit, 1, <<>>)
                /\ set_acked_at' = [set_acked_at EXCEPT ![key] = None]
           ELSE /\ fx' = Fx(Unit, 0, <<>>)
                /\ UNCHANGED <<data, output_events, set_acked_at>>
        /\ UNCHANGED <<timer_now, version_seed, subscribe_map, get_queue, cb_results,
                       get_issued>>

\* a faulty subscribe: it puts the new slot in place of the one the key has
subscribe_overwrite(key, ex, handler) ==
    LET r == gen_req_id(req_id_seed)
    IN  /\ req_id_seed' = r.seed
        /\ subscribe_map' = Insert(subscribe_map, key,
               [ex |-> ex, last_sync |-> 0, sub |-> TRUE, acked |-> FALSE,
                handler |-> handler])
        /\ output_events' = Append(output_events,
               LocalStorageAction(EvSub(r.id, key, ex), ToKey(key)))
        /\ fx' = Fx(Unit, 1, <<>>)
        /\ UNCHANGED <<timer_now, version_seed, data, get_queue, cb_results,
                       set_acked_at, get_issued>>

\* pub fn subscribe: returns early, before gen_req_id, when the key has a slot
subscribe(key, ex, handler) ==
    IF key \in DOMAIN subscribe_map
    THEN /\ fx' = Fx(Unit, 0, <<>>)
         /\ UNCHANGED <<timer_now, req_id_seed, version_seed, data, subscribe_map,
                        output_events, get_queue, cb_results, set_acked_at, get_issued>>
    ELSE LET r == gen_req_id(req_id_seed)
         IN  /\ req_id_seed' = r.seed
             /\ subscribe_map' = Insert(subscribe_map, key,
                    [ex |-> ex, last_sync |-> 0, sub |-> TRUE, acked |-> FALSE,
                     handler |-> handler])
             /\ output_events' = Append(output_events,
                    LocalStorageAction(EvSub(r.id, key, ex), ToKey(key)))
             /\ fx' = Fx(Unit, 1, <<>>)
             /\ UNCHANGED <<timer_now, version_seed, data, get_queue, cb_results,
                            set_acked_at, get_issued>>

\* a faulty unsubscribe: the slot keeps sub = true
unsubscribe_still_sub(key) ==
    LET r == gen_req_id(req_id_seed)
    IN  /\ req_id_seed' = r.seed
        /\ IF key \in DOMAIN subscribe_map
           THEN /\ subscribe_map' = [subscribe_map EXCEPT ![key].last_sync = 0,
                                        ![key].acked = FALSE]
                /\ output_events' = Append(output_events,
                        LocalStorageAction(EvUnsub(r.id, key), ToKey(key)))
                /\ fx' = Fx(Unit, 1, <<>>)
           ELSE /\ fx' = Fx(Unit, 0, <<>>)
                /\ UNCHANGED <<subscribe_map, output_events>>
        /\ UNCHANGED <<timer_now, version_seed, data, get_queue, cb_results, set_acked_at, get_issued>>

\* pub fn unsubscribe: the request id is taken before the slot is looked up
unsubscribe(key) ==
    LET r == gen_req_id(req_id_seed)
    IN  /\ req_id_seed' = r.seed
        /\ IF key \in DOMAIN subscribe_map
           THEN /\ subscribe_map' = [subscribe_map EXCEPT ![key].sub = FALSE,
                                        ![key].last_sync = 0, ![key].acked = FALSE]
                /\ output_events' = Append(output_events,
                        LocalStorageAction(EvUnsub(r.id, key), ToKey(key)))
                /\ fx' = Fx(Unit, 1, <<>>)
           ELSE /\ fx' = Fx(Unit, 0, <<>>)
                /\ UNCHANGED <<subscribe_map, output_events>>
        /\ UNCHANGED <<timer_now, version_seed, data, get_queue, cb_results, set_acked_at, get_issued>>

\* a faulty pop_action: it takes the newest action instead of the oldest
pop_action_lifo ==
    /\ IF output_events = <<>>
       THEN /\ fx' = Fx(<<"None">>, 0, <<>>)
            /\ UNCHANGED output_events
       ELSE /\ fx' = Fx(<<"Some", output_events[Len(output_events)]>>, 0, <<>>)
            /\ output_events' = SubSeq(output_events, 1, Len(output_events) - 1)
    /\ UNCHANGED <<timer_now, req_id_seed, version_seed, data, subscribe_map, get_queue,
                   cb_results, set_acked_at, get_issued>>

\* pub fn pop_action
pop_action ==
    /\ IF output_events = <<>>
       THEN /\ fx' = Fx(<<"None">>, 0, <<>>)
            /\ UNCHANGED output_events
       ELSE /\ fx' = Fx(<<"Some", Head(output_events)>>, 0, <<>>)
            /\ output_events' = Tail(output_events)
    /\ UNCHANGED <<timer_now, req_id_seed, version_seed, data, subscribe_map, get_queue,
                   cb_results, set_acked_at, get_issued>>

\* a faulty SetAck handler: it does not look at the success flag
on_SetAck_any(key, version, success) ==
    /\ IF key \in DOMAIN data /\ data[key].version = version
       THEN /\ data' = [data EXCEPT ![key].acked = TRUE]
            /\ set_acked_at' =
                 IF data[key].value # None /\ set_acked_at[key] = None
                 THEN [set_acked_at EXCEPT ![key] = Some(timer_now)]
                 ELSE set_acked_at
       ELSE UNCHANGED <<data, set_acked_at>>
    /\ fx' = Fx(Unit, 0, <<>>)
    /\ UNCHANGED <<timer_now, req_id_seed, version_seed, subscribe_map, output_events,
                   get_queue, cb_results, get_issued>>

\* on_event, SimpleLocalEvent::SetAck(_req_id, key, version, success)
on_SetAck(key, version, success) ==
    /\ IF success /\ key \in DOMAIN data /\ data[key].version = version
       THEN /\ data' = [data EXCEPT ![key].acked = TRUE]
            /\ set_acked_at' =
                 IF data[key].value # None /\ set_acked_at[key] = None
                 THEN [set_acked_at EXCEPT ![key] = Some(timer_now)]
                 ELSE set_acked_at
       ELSE UNCHANGED <<data, set_acked_at>>
    /\ fx' = Fx(Unit, 0, <<>>)
    /\ UNCHANGED <<timer_now, req_id_seed, version_seed, subscribe_map, output_events,
                   get_queue, cb_results, get_issued>>

\* a faulty GetAck handler: the slot stays in get_queue
on_GetAck_keep(req_id, value) ==
    /\ IF req_id \in DOMAIN get_queue
       THEN /\ cb_results' = [cb_results EXCEPT ![get_queue[req_id].callback] =
                                Append(@, <<"Ok", value>>)]
            /\ UNCHANGED get_queue
       ELSE UNCHANGED <<get_queue, cb_results>>
    /\ fx' = Fx(Unit, 0, <<>>)
    /\ UNCHANGED <<timer_now, req_id_seed, version_seed, data, subscribe_map,
                   output_events, set_acked_at, get_issued>>

\* on_event, SimpleLocalEvent::GetAck(req_id, _key, value)
on_GetAck(req_id, value) ==
    /\ IF req_id \in DOMAIN get_queue
       THEN /\ get_queue' = Restrict(get_queue, DOMAIN get_queue \ {req_id})
            /\ cb_results' = [cb_results EXCEPT ![get_queue[req_id].callback] =
                                Append(@, <<"Ok", value>>)]
       ELSE UNCHANGED <<get_queue, cb_results>>
    /\ fx' = Fx(Unit, 0, <<>>)
    /\ UNCHANGED <<timer_now, req_id_seed, version_seed, data, subscribe_map,
                   output_events, set_acked_at, get_issued>>

\* a faulty DelAck handler: it wants the slot's version strictly above the acked one
on_DelAck_strict(key, version) ==
    /\ IF key \in DOMAIN data /\ (version = None \/ data[key].version > version[1])
       THEN data' = [data EXCEPT ![key].acked = TRUE]
       ELSE UNCHANGED data
    /\ fx' = Fx(Unit, 0, <<>>)
    /\ UNCHANGED <<timer_now, req_id_seed, version_seed, subscribe_map, output_events,
                   get_queue, cb_results, set_acked_at, get_issued>>

\* on_event, SimpleLocalEvent::DelAck(_req_id, key, version)
on_DelAck(key, version) ==
    /\ IF key \in DOMAIN data /\ (version = None \/ data[key].version >= version[1])
       THEN data' = [data EXCEPT ![key].acked = TRUE]
       ELSE UNCHANGED data
    /\ fx' = Fx(Unit, 0, <<>>)
    /\ UNCHANGED <<timer_now, req_id_seed, version_seed, subscribe_map, output_events,
                   get_queue, cb_results, set_acked_at, get_issued>>

\* a faulty SubAck: it acks whatever the slot's sub
on_SubAck_any(key_id) ==
    /\ IF key_id \in DOMAIN subscribe_map
       THEN subscribe_map' = [subscribe_map EXCEPT ![key_id].acked = TRUE]
       ELSE UNCHANGED subscribe_map
    /\ fx' = Fx(Unit, 0, <<>>)
    /\ UNCHANGED <<timer_now, req_id_seed, version_seed, data, output_events,
                   get_queue, cb_results, set_acked_at, get_issued>>

\* on_event, SimpleLocalEvent::SubAck(_req_id, key_id)
on_SubAck(key_id) ==
    /\ IF key_id \in DOMAIN subscribe_map /\ subscribe_map[key_id].sub
       THEN subscribe_map' = [subscribe_map EXCEPT ![key_id].acked = TRUE]
       ELSE UNCHANGED subscribe_map
    /\ fx' = Fx(Unit, 0, <<>>)
    /\ UNCHANGED <<timer_now, req_id_seed, version_seed, data, output_events,
                   get_queue, cb_results, set_acked_at, get_issued>>

\* on_event, SimpleLocalEvent::UnsubAck(_req_id, key_id, success)
on_UnsubAck(key_id, success) ==
    /\ IF success /\ key_id \in DOMAIN subscribe_map /\ subscribe_map[key_id].sub = FALSE
       THEN subscribe_map' = [subscribe_map EXCEPT ![key_id].acked = TRUE]
       ELSE UNCHANGED subscribe_map
    /\ fx' = Fx(Unit, 0, <<>>)
    /\ UNCHANGED <<timer_now, req_id_seed, version_seed, data, output_events,
                   get_queue, cb_results, set_acked_at, get_issued>>

\* a faulty handler call: only a slot that is acked gets the event
call_handler_acked(key, value, version, source) ==
    IF key \in DOMAIN subscribe_map /\ subscribe_map[key].sub /\ subscribe_map[key].acked
    THEN <<[handler |-> subscribe_map[key].handler, key |-> key, value |-> value,
            version |-> version, source |-> source]>>
    ELSE <<>>

\* the handler invocations of OnKeySet / OnKeyDel: (handler, key, value, version, source)
call_handler(key, value, version, source) ==
    IF key \in DOMAIN subscribe_map /\ subscribe_map[key].sub
    THEN <<[handler |-> subscribe_map[key].handler, key |-> key, value |-> value,
            version |-> version, source |-> source]>>
    ELSE <<>>

\* on_event, SimpleLocalEvent::OnKeySet(req_id, key, value, version, source)
on_OnKeySet(from, req_id, key, value, version, source) ==
    /\ output_events' = Append(output_events,
            LocalStorageAction(EvOnKeySetAck(req_id), ToNode(from)))
    /\ fx' = Fx(Unit, 0, call_handler(key, Some(value), version, source))
    /\ UNCHANGED <<timer_now, req_id_seed, version_seed, data, subscribe_map,
                   get_queue, cb_results, set_acked_at, get_issued>>

\* on_event, SimpleLocalEvent::OnKeyDel(req_id, key, version, source)
on_OnKeyDel(from, req_id, key, version, source) ==
    /\ output_events' = Append(output_events,
            LocalStorageAction(EvOnKeyDelAck(req_id), ToNode(from)))
    /\ fx' = Fx(Unit, 0, call_handler(key, None, version, source))
    /\ UNCHANGED <<timer_now, req_id_seed, version_seed, data, subscribe_map,
                   get_queue, cb_results, set_acked_at, get_issued>>

\* pub fn on_event
on_event(from, event) ==
    CASE event.type = "SetAck" -> on_SetAck(event.key, event.version, event.success)
      [] event.type = "GetAck" -> on_GetAck(event.req, event.value)
      [] event.type = "DelAck" -> on_DelAck(event.key, event.version)
      [] event.type = "SubAck" -> on_SubAck(event.key)
      [] event.type = "UnsubAck" -> on_UnsubAck(event.key, event.success)
      [] event.type = "OnKeySet" ->
            on_OnKeySet(from, event.req, event.key, event.value, event.version, event.source)
      [] event.type = "OnKeyDel" ->
            on_OnKeyDel(from, event.req, event.key, event.version, event.source)

\* the versions an ack about a key may carry: the slot's (0 without a slot) and
\* its neighbours
VersionInputs(key) ==
    LET v == IF key \in DOMAIN data THEN data[key].version ELSE 0
    IN  {v, v + 1} \cup (IF v > 0 THEN {v - 1} ELSE {})

\* the SimpleLocalEvents delivered to on_event, by the slots they are about;
\* fields that on_event ignores (_req_id, _key) take one value
DataAckInputs(key) ==
    [type : {"SetAck"}, req : {0}, key : {key}, version : VersionInputs(key), success : BOOLEAN]
    \cup [type : {"DelAck"}, req : {0}, key : {key},
          version : {None} \cup {Some(v) : v \in VersionInputs(key)}]
SubAckInputs(key) ==
    [type : {"SubAck"}, req : {0}, key : {key}]
    \cup [type : {"UnsubAck"}, req : {0}, key : {key}, success : BOOLEAN]
GetAckInputs ==
    [type : {"GetAck"}, req : 0..req_id_seed, key : {1}, value : {None, Some(<<"a", 0, 9>>)}]
KeyEventInputs(key) ==
    [type : {"OnKeySet"}, req : {5}, key : {key}, value : {"a"}, version : {0}, source : {9}]
    \cup [type : {"OnKeyDel"}, req : {5}, key : {key}, version : {0}, source : {9}]

\* n successive gen_req_id() calls: the ids in call order, and the seed after them
RECURSIVE gen_req_ids(_, _)
gen_req_ids(seed, n) ==
    IF n = 0 THEN [ids |-> <<>>, seed |-> seed]
    ELSE LET r == gen_req_id(seed)
             rest == gen_req_ids(r.seed, n - 1)
         IN  [ids |-> <<r.id>> \o rest.ids, seed |-> rest.seed]

\* a faulty resend: it sends Del whatever the slot holds
resend_data_del(req_id, key, slot) ==
    LocalStorageAction(EvDel(req_id, key, slot.version), ToKey(key))

\* tick, first loop body: what is sent again for a data slot that is not acked
resend_data(req_id, key, slot) ==
    IF slot.value # None
    THEN LocalStorageAction(EvSet(req_id, key, slot.value[1], slot.version, slot.ex), ToKey(key))
    ELSE LocalStorageAction(EvDel(req_id, key, slot.version), ToKey(key))

\* tick, second loop body: what is sent again for a subscribe slot that is not acked
resend_subscribe(req_id, key, slot) ==
    IF slot.sub
    THEN LocalStorageAction(EvSub(req_id, key, slot.ex), ToKey(key))
    ELSE LocalStorageAction(EvUnsub(req_id, key), ToKey(key))

\* a faulty sync condition: one millisecond late
sync_due_late(now, slot) == slot.acked /\ now - slot.last_sync > SyncEachMs

\* tick: the condition of the periodic sync of an acked slot (data or subscribe)
sync_due(now, slot) == slot.acked /\ now - slot.last_sync >= SyncEachMs

\* tick, third loop body: an acked data slot that is due is sent again, or, when
\* it holds no value, put on removed_keys (nothing is sent)
sync_data(req_id, key, slot) ==
    IF slot.value # None
    THEN <<LocalStorageAction(EvSet(req_id, key, slot.value[1], slot.version, slot.ex),
                              ToKey(key))>>
    ELSE <<>>

\* tick, fifth loop body: an acked subscribe slot that is due is sent again, or,
\* when unsubscribed, put on unsub_keys (nothing is sent)
sync_subscribe(req_id, key, slot) ==
    IF slot.sub
    THEN <<LocalStorageAction(EvSub(req_id, key, slot.ex), ToKey(key))>>
    ELSE <<>>

\* tick: the get slots that time out
timeout_gets(now) ==
    {req_id \in DOMAIN get_queue : ge_u64(now, get_queue[req_id].timeout_after_ts)}

\* a faulty removal: every slot without a value goes, acked or not
removed_data_unacked(due) == {k \in DOMAIN data : data[k].value = None}

\* tick, removed_keys: the data slots that are acked and due (the set `due`) and
\* hold no value
removed_data(due) == {k \in due : data[k].value = None}

\* pub fn tick; data_order and sub_order are the iteration orders of the two HashMaps
tick(data_order, sub_order) ==
    LET now == timer_now
        UnackedD(k) == k \in DOMAIN data /\ ~data[k].acked
        UnackedS(k) == k \in DOMAIN subscribe_map /\ ~subscribe_map[k].acked
        DueD(k) == k \in DOMAIN data /\ sync_due(now, data[k])
        DueS(k) == k \in DOMAIN subscribe_map /\ sync_due(now, subscribe_map[k])
        ud == SelectSeq(data_order, UnackedD)
        us == SelectSeq(sub_order, UnackedS)
        dd == SelectSeq(data_order, DueD)
        ds == SelectSeq(sub_order, DueS)
        r1 == gen_req_ids(req_id_seed, Len(ud))
        r2 == gen_req_ids(r1.seed, Len(us))
        r3 == gen_req_ids(r2.seed, Len(dd))
        r4 == gen_req_ids(r3.seed, Len(ds))
        out1 == [i \in 1..Len(ud) |-> resend_data(r1.ids[i], ud[i], data[ud[i]])]
        out2 == [i \in 1..Len(us) |-> resend_subscribe(r2.ids[i], us[i], subscribe_map[us[i]])]
        out3 == Concat([i \in 1..Len(dd) |-> sync_data(r3.ids[i], dd[i], data[dd[i]])])
        out4 == Concat([i \in 1..Len(ds) |->
                            sync_subscribe(r4.ids[i], ds[i], subscribe_map[ds[i]])])
        removed_keys == removed_data(Range(dd))
        unsub_keys == {k \in Range(ds) : ~subscribe_map[k].sub}
        synced_data == [k \in DOMAIN data |->
                            IF DueD(k) THEN [data[k] EXCEPT !.last_sync = now] ELSE data[k]]
        synced_sub == [k \in DOMAIN subscribe_map |->
                            IF DueS(k) THEN [subscribe_map[k] EXCEPT !.last_sync = now]
                            ELSE subscribe_map[k]]
        timeouts == timeout_gets(now)
        timeout_cbs == {get_queue[r].callback : r \in timeouts}
        out == out1 \o out2 \o out3 \o out4
    IN  /\ fx' = Fx(Unit, 0, <<>>)
        /\ UNCHANGED <<timer_now, version_seed, get_issued>>
        /\ req_id_seed' = r4.seed
        /\ output_events' = output_events \o out
        /\ data' = Restrict(synced_data, DOMAIN data \ removed_keys)
        /\ subscribe_map' = Restrict(synced_sub, DOMAIN subscribe_map \ unsub_keys)
        /\ get_queue' = Restrict(get_queue, DOMAIN get_queue \ timeouts)
        /\ cb_results' = [c \in DOMAIN cb_results |->
                            IF c \in timeout_cbs
                            THEN Append(cb_results[c], <<"Err", "Timeout">>)
                            ELSE cb_results[c]]
        /\ set_acked_at' = [k \in Keys |-> IF k \in removed_keys THEN None ELSE set_acked_at[k]]

\* the bounds of a run of the agent (request ids handed out, actions waiting,
\* clock); the other subsystems stand still
Bounded(max_req, max_queue, max_now) ==
    /\ req_id_seed' <= max_req
    /\ Len(output_events') <= max_queue
    /\ timer_now' <= max_now
    /\ UNCHANGED <<ver_vars, tcp_vars, vnet_vars, conc_vars, mock_vars>>

\* The key-value agent, driven by its single owner: every call, on one key,
\* events from one node.
InBounds == Bounded(MaxReqAll, MaxQueue, MaxNowAll)
Next ==
    \/ \E key \in {1}, in \in SetInputs : set(key, in[1], in[2]) /\ InBounds
    \/ \E key \in {1} : del(key) /\ InBounds
    \/ \E key \in {1} : \E event \in DataAckInputs(key) : on_event(2, event) /\ InBounds
    \/ \E key \in {1}, in \in SubInputs : subscribe(key, in[1], in[2]) /\ InBounds
    \/ \E key \in {1} : unsubscribe(key) /\ InBounds
    \/ \E key \in {1} : \E event \in SubAckInputs(key) : on_event(2, event) /\ InBounds
    \/ \E key \in {1}, from \in {2} : \E event \in KeyEventInputs(key) :
            on_event(from, event) /\ InBounds
    \/ \E key \in {1}, timeout_ms \in TimeoutInputs, overflow_checks \in BOOLEAN :
            get(key, timeout_ms, overflow_checks) /\ InBounds
    \/ \E event \in GetAckInputs : on_event(2, event) /\ InBounds
    \/ timer_advance /\ InBounds
    \/ \E data_order \in KeyOrders, sub_order \in KeyOrders :
            tick(data_order, sub_order) /\ InBounds
    \/ pop_action /\ InBounds
Spec == Init /\ [][Next]_vars

\* The agent used for its data slots only.
InBoundsData == Bounded(MaxReq, MaxQueue, MaxNow)
NextData ==
    \/ \E key \in Keys, in \in SetInputs : set(key, in[1], in[2]) /\ InBoundsData
    \/ \E key \in Keys : del(key) /\ InBoundsData
    \/ \E key \in Keys : \E event \in DataAckInputs(key) : on_event(2, event) /\ InBoundsData
    \/ timer_advance /\ InBoundsData
    \/ \E data_order \in KeyOrders, sub_order \in KeyOrders :
            tick(data_order, sub_order) /\ InBoundsData
    \/ pop_action /\ InBoundsData
SpecData == Init /\ [][NextData]_vars

\* The agent used for its subscribe slots only.
InBoundsSub == Bounded(MaxReq, MaxQueue, MaxNow)
NextSub ==
    \/ \E key \in Keys, in \in SubInputs : subscribe(key, in[1], in[2]) /\ InBoundsSub
    \/ \E key \in Keys : unsubscribe(key) /\ InBoundsSub
    \/ \E key \in Keys : \E event \in SubAckInputs(key) : on_event(2, event) /\ InBoundsSub
    \/ \E key \in Keys, from \in Nodes : \E event \in KeyEventInputs(key) :
            on_event(from, event) /\ InBoundsSub
    \/ timer_advance /\ InBoundsSub
    \/ \E data_order \in KeyOrders, sub_order \in KeyOrders :
            tick(data_order, sub_order) /\ InBoundsSub
    \/ pop_action /\ InBoundsSub
SpecSub == Init /\ [][NextSub]_vars

\* The agent used for get only.
InBoundsGet == Bounded(MaxReq, MaxQueue, MaxNow)
NextGet ==
    \/ \E key \in {1}, timeout_ms \in TimeoutInputs, overflow_checks \in BOOLEAN :
            get(key, timeout_ms, overflow_checks) /\ InBoundsGet
    \/ \E event \in GetAckInputs : on_event(2, event) /\ InBoundsGet
    \/ timer_advance /\ InBoundsGet
    \/ \E data_order \in KeyOrders, sub_order \in KeyOrders :
            tick(data_order, sub_order) /\ InBoundsGet
    \/ pop_action /\ InBoundsGet
SpecGet == Init /\ [][NextGet]_vars

\* The data slot and the subscribe slot of one key over time, nothing popped.
InBoundsSync == Bounded(MaxReq, MaxReq, MaxNow)
NextSync ==
    \/ \E key \in {1}, in \in SetInputs : set(key, in[1], in[2]) /\ InBoundsSync
    \/ \E key \in {1} : del(key) /\ InBoundsSync
    \/ \E key \in {1} : \E event \in DataAckInputs(key) : on_event(2, event) /\ InBoundsSync
    \/ \E key \in {1}, in \in SubInputs : subscribe(key, in[1], in[2]) /\ InBoundsSync
    \/ \E key \in {1} : unsubscribe(key) /\ InBoundsSync
    \/ \E key \in {1} : \E event \in SubAckInputs(key) : on_event(2, event) /\ InBoundsSync
    \/ timer_advance /\ InBoundsSync
    \/ \E data_order \in KeyOrders, sub_order \in KeyOrders :
            tick(data_order, sub_order) /\ InBoundsSync
SpecSync == Init /\ [][NextSync]_vars

\* Data slots of every key and the subscribe slot of one key together, nothing
\* popped; the clock stands at 0.
InBoundsSlots == Bounded(MaxReqSlots, MaxReqSlots, 0)
NextSlots ==
    \/ \E key \in Keys, in \in SetInputs : set(key, in[1], in[2]) /\ InBoundsSlots
    \/ \E key \in Keys : del(key) /\ InBoundsSlots
    \/ \E key \in Keys : \E event \in DataAckInputs(key) : on_event(2, event) /\ InBoundsSlots
    \/ \E key \in {1}, in \in SubInputs : subscribe(key, in[1], in[2]) /\ InBoundsSlots
    \/ \E key \in {1} : unsubscribe(key) /\ InBoundsSlots
    \/ \E key \in {1} : \E event \in SubAckInputs(key) : on_event(2, event) /\ InBoundsSlots
    \/ \E data_order \in KeyOrders, sub_order \in KeyOrders :
            tick(data_order, sub_order) /\ InBoundsSlots
SpecSlots == Init /\ [][NextSlots]_vars

----------------------------------------------------------------------------
(* Version generation at full u64 width *)

\* clock values around 0 and around 2^48, where `now_ms << 16` starts to lose bits
ClockInputs ==
    {<<0, 0, 0, 0>>, <<0, 0, 0, 1>>, <<0, U16Mod - 1, U16Mod - 1, U16Mod - 1>>,
     <<1, 0, 0, 0>>, <<1, 0, 0, 1>>}
\* values of version_seed left by earlier set() calls, around 0 and around the wrap
SeedInputs == {0, 1, U16Mod - 2, U16Mod - 1}

Init_ver_any ==
    /\ ver_now = int_limbs(0)
    /\ ver_seed \in SeedInputs
    /\ ver_log = <<>>

\* a set() call, as far as the version goes
ver_set ==
    LET v == gen_version(ver_now, ver_seed)
    IN  /\ Len(ver_log) < MaxVerLog
        /\ ver_seed' = v.seed
        /\ ver_log' = Append(ver_log, [now |-> ver_now, version |-> v.version])
        /\ UNCHANGED <<ver_now, kv_vars, tcp_vars, vnet_vars, conc_vars, mock_vars>>

\* the clock moves on
ver_advance ==
    /\ \E t \in ClockInputs : lt_u64(ver_now, t) /\ ver_now' = t
    /\ UNCHANGED <<ver_seed, ver_log, kv_vars, tcp_vars, vnet_vars, conc_vars, mock_vars>>

NextVer ==
    \/ ver_set
    \/ ver_advance
InitVer == Init_kv /\ Init_ver_any /\ Init_tcp /\ Init_vnet /\ Init_conc /\ Init_mock
SpecVer == InitVer /\ [][NextVer]_vars

----------------------------------------------------------------------------
(* The TCP connection: TcpConnectionSender, its sending task, TcpConnectionReceiver *)

TcpMsg_Msg(service_id, msg) == [type |-> "Msg", service_id |-> service_id, msg |-> msg]
TcpMsg_Ping(ts) == [type |-> "Ping", ts |-> ts]
TcpMsg_Pong(ts) == [type |-> "Pong", ts |-> ts]
OutgoingEvent_Msg(msg) == [type |-> "Msg", msg |-> msg]
CloseRequest == [type |-> "CloseRequest"]
ClosedNotify == [type |-> "ClosedNotify"]
\* ConnectionMsg::Reliable / Unreliable; id tells the messages of the run apart
ConnectionMsg(kind, id) == [kind |-> kind, id |-> id]

\* the kinds of message given to send()
SendInputs == {"Reliable", "Unreliable"}
\* what recv_tcp_stream may give: the frames the peer puts on the socket, and
\* the end of the stream
PingInputs == {TcpMsg_Ping(ts) : ts \in 0..1}
Eof == [type |-> "Eof"]
FrameInputs ==
    {TcpMsg_Msg(0, ConnectionMsg("Reliable", 0))}
    \cup PingInputs
    \cup {TcpMsg_Pong(ts) : ts \in 0..1}
    \cup {[type |-> "ConnectRequest"], Eof}

\* the channels are closed once the task, which owns both receivers, is gone
channel_closed == task = "done"

\* a faulty send_blocking: it does not see that the channel is closed
r_send_blocking_open(ev) == Append(r_queue, ev)

\* Sender::send_blocking on the unbounded channel: fails when the channel is closed
r_send_blocking(ev) == IF channel_closed THEN r_queue ELSE Append(r_queue, ev)

\* a faulty r_rx.recv(): it takes the newest event of the queue
r_recv_lifo(q) == [ev |-> q[Len(q)], rest |-> SubSeq(q, 1, Len(q) - 1)]

\* r_rx.recv() / unr_rx.recv() on a queue that holds an event
r_recv(q) == [ev |-> Head(q), rest |-> Tail(q)]

\* fn send_tcp_stream; ok: whether the write went through
send_tcp_stream(wire, msg, ok) == IF ok THEN Append(wire, msg) ELSE wire

tcp_timer_advance ==
    /\ tcp_now' = tcp_now + 1
    /\ UNCHANGED <<r_queue, unr_queue, task, sender_alive, wire_out, poll_ret, send_seq,
                   socket>>

\* a faulty send: the unreliable channel takes a message also when it is full
send_unbounded(service_id, kind) ==
    LET ev == OutgoingEvent_Msg(TcpMsg_Msg(service_id, ConnectionMsg(kind, send_seq)))
    IN  /\ sender_alive
        /\ send_seq' = send_seq + 1
        /\ IF kind = "Reliable"
           THEN /\ r_queue' = r_send_blocking(ev)
                /\ UNCHANGED unr_queue
           ELSE /\ unr_queue' = IF channel_closed THEN unr_queue ELSE Append(unr_queue, ev)
                /\ UNCHANGED r_queue
        /\ UNCHANGED <<tcp_now, task, sender_alive, wire_out, poll_ret, socket>>

\* ConnectionSender::send: send_blocking on the reliable channel, try_send on the
\* unreliable one (which fails when the channel is full or closed); errors are logged
send(service_id, kind) ==
    LET ev == OutgoingEvent_Msg(TcpMsg_Msg(service_id, ConnectionMsg(kind, send_seq)))
    IN  /\ sender_alive
        /\ send_seq' = send_seq + 1
        /\ IF kind = "Reliable"
           THEN /\ r_queue' = r_send_blocking(ev)
                /\ UNCHANGED unr_queue
           ELSE /\ unr_queue' = IF channel_closed \/ Len(unr_queue) >= UnreliableQueueSize
                                THEN unr_queue
                                ELSE Append(unr_queue, ev)
                /\ UNCHANGED r_queue
        /\ UNCHANGED <<tcp_now, task, sender_alive, wire_out, poll_ret, socket>>

\* ConnectionSender::close: send_blocking of CloseRequest on the unreliable
\* channel; the call waits while the channel is full, and fails when it is closed
close ==
    /\ sender_alive
    /\ channel_closed \/ Len(unr_queue) < UnreliableQueueSize
    /\ unr_queue' = IF channel_closed THEN unr_queue ELSE Append(unr_queue, CloseRequest)
    /\ UNCHANGED <<tcp_now, r_queue, task, sender_alive, wire_out, poll_ret, send_seq, socket>>

\* Drop for TcpConnectionSender: `task.cancel()` builds the cancel future and
\* drops it without awaiting it; whether that stops the task lies with async-std,
\* so both outcomes stand (cancelled or not)
drop(cancelled) ==
    /\ sender_alive
    /\ sender_alive' = FALSE
    /\ task' = IF cancelled THEN "done" ELSE task
    /\ UNCHANGED <<tcp_now, r_queue, unr_queue, wire_out, poll_ret, send_seq, socket>>

\* the sending task, before its loop: the first Ping
task_first_ping(ok) ==
    /\ task = "start"
    /\ wire_out' = send_tcp_stream(wire_out, TcpMsg_Ping(tcp_now), ok)
    /\ task' = "loop"
    /\ UNCHANGED <<tcp_now, r_queue, unr_queue, sender_alive, poll_ret, send_seq, socket>>

\* a faulty task: it goes on after ClosedNotify
task_handle_keeps_on(ev, ok) ==
    IF ev.type = "Msg"
    THEN /\ wire_out' = send_tcp_stream(wire_out, ev.msg, ok)
         /\ UNCHANGED <<task, socket>>
    ELSE /\ task' = IF ev.type = "CloseRequest" THEN "done" ELSE task
         /\ socket' = IF ev.type = "CloseRequest" THEN "shutdown" ELSE socket
         /\ UNCHANGED wire_out

\* the sending task, the `match msg` of one loop turn on an event: a Msg is
\* written; CloseRequest shuts the socket down (an error of shutdown() is logged:
\* the socket was no longer connected) and breaks; ClosedNotify only breaks
task_handle(ev, ok) ==
    IF ev.type = "Msg"
    THEN /\ wire_out' = send_tcp_stream(wire_out, ev.msg, ok)
         /\ UNCHANGED <<task, socket>>
    ELSE /\ task' = "done"
         /\ socket' = IF ev.type = "CloseRequest" THEN "shutdown" ELSE socket
         /\ UNCHANGED wire_out

\* a faulty task: it takes reliable events before its first Ping
task_recv_reliable_early(ok) ==
    /\ task \in {"start", "loop"}
    /\ r_queue # <<>>
    /\ r_queue' = r_recv(r_queue).rest
    /\ task_handle(r_recv(r_queue).ev, ok)
    /\ UNCHANGED <<tcp_now, unr_queue, sender_alive, poll_ret, send_seq>>

\* one loop turn in which select! takes r_rx.recv()
task_recv_reliable(ok) ==
    /\ task = "loop"
    /\ r_queue # <<>>
    /\ r_queue' = r_recv(r_queue).rest
    /\ task_handle(r_recv(r_queue).ev, ok)
    /\ UNCHANGED <<tcp_now, unr_queue, sender_alive, poll_ret, send_seq>>

\* one loop turn in which select! takes unr_rx.recv()
task_recv_unreliable(ok) ==
    /\ task = "loop"
    /\ unr_queue # <<>>
    /\ unr_queue' = r_recv(unr_queue).rest
    /\ task_handle(r_recv(unr_queue).ev, ok)
    /\ UNCHANGED <<tcp_now, r_queue, sender_alive, poll_ret, send_seq>>

\* one loop turn in which unr_rx.recv() fails: the channel is empty and its only
\* sender, the TcpConnectionSender, is gone
task_recv_error ==
    /\ task = "loop"
    /\ ~sender_alive
    /\ unr_queue = <<>>
    /\ task' = "done"
    /\ UNCHANGED <<tcp_now, r_queue, unr_queue, sender_alive, wire_out, poll_ret,
                   send_seq, socket>>

\* one loop turn in which select! takes tick_interval.next(): a Ping is written
task_tick(ok) ==
    /\ task = "loop"
    /\ wire_out' = send_tcp_stream(wire_out, TcpMsg_Ping(tcp_now), ok)
    /\ UNCHANGED <<tcp_now, r_queue, unr_queue, task, sender_alive, poll_ret, send_seq, socket>>

\* ConnectionReceiver::poll, one turn of its loop on what recv_tcp_stream gives:
\* a frame while the stream is open, the end of the stream from then on.
\* `timer.now_ms() - ping_sent_ts` is a plain u64 subtraction: when ping_sent_ts is
\* above the clock, a build with overflow checks panics and one without wraps;
\* `as u16` keeps the low 16 bits.
poll(frame, overflow_checks) ==
    /\ socket = "open" \/ frame.type = "Eof"
    /\ socket' = IF socket = "open" /\ frame.type = "Eof" THEN "eof" ELSE socket
    /\ CASE frame.type = "Msg" ->
              /\ poll_ret' = <<"Ok", [type |-> "Msg", service_id |-> frame.service_id,
                                      msg |-> frame.msg]>>
              /\ UNCHANGED r_queue
         [] frame.type = "Ping" ->
              /\ r_queue' = r_send_blocking(OutgoingEvent_Msg(TcpMsg_Pong(frame.ts)))
              /\ poll_ret' = <<"Pending">>
         [] frame.type = "Pong" ->
              /\ poll_ret' = IF frame.ts > tcp_now /\ overflow_checks
                             THEN <<"panic">>
                             ELSE <<"Ok", [type |-> "Stats",
                                           rtt_ms |-> (tcp_now - frame.ts) % U16Mod]>>
              /\ UNCHANGED r_queue
         [] frame.type = "Eof" ->
              /\ r_queue' = r_send_blocking(ClosedNotify)
              /\ poll_ret' = <<"Err">>
         [] OTHER ->
              \* ConnectRequest, ConnectResponse: logged, poll() reads on
              /\ poll_ret' = <<"Pending">>
              /\ UNCHANGED r_queue
    /\ UNCHANGED <<tcp_now, unr_queue, task, sender_alive, wire_out, send_seq>>

\* the bounds of a run of the connection; the other subsystems stand still
BoundedTcp ==
    /\ send_seq' <= MaxSend
    /\ Len(wire_out') <= MaxWire
    /\ Len(r_queue') <= MaxRQueue
    /\ tcp_now' <= MaxTcpNow
    /\ UNCHANGED <<kv_vars, ver_vars, vnet_vars, conc_vars, mock_vars>>

\* The connection seen from its sender: send, close, drop, the sending task, and
\* a peer that sends Pings and closes the stream.
NextTcp ==
    \/ \E kind \in SendInputs : send(0, kind) /\ BoundedTcp
    \/ close /\ BoundedTcp
    \/ \E cancelled \in BOOLEAN : drop(cancelled) /\ BoundedTcp
    \/ \E ok \in BOOLEAN : task_first_ping(ok) /\ BoundedTcp
    \/ \E ok \in BOOLEAN : task_recv_reliable(ok) /\ BoundedTcp
    \/ \E ok \in BOOLEAN : task_recv_unreliable(ok) /\ BoundedTcp
    \/ task_recv_error /\ BoundedTcp
    \/ \E ok \in BOOLEAN : task_tick(ok) /\ BoundedTcp
    \/ \E frame \in PingInputs \cup {Eof} : poll(frame, FALSE) /\ BoundedTcp
SpecTcp == Init /\ [][NextTcp]_vars

\* The same connection with its task scheduled fairly: the spawned task gets to
\* run, and select! takes r_rx.recv() in the end when the reliable queue keeps
\* holding an event (it picks among the ready branches at random).
SpecTcpFair ==
    /\ SpecTcp
    /\ WF_vars(\E ok \in BOOLEAN : task_first_ping(ok) /\ BoundedTcp)
    /\ WF_vars(\E ok \in BOOLEAN : task_recv_reliable(ok) /\ BoundedTcp)

\* The connection of a host that sends its Reliable messages and then calls
\* close(): no send() once close() was called; the socket takes every write.
close_called == task = "done" \/ CloseRequest \in Range(unr_queue)
NextClose ==
    \/ send(0, "Reliable") /\ ~close_called /\ BoundedTcp
    \/ close /\ BoundedTcp
    \/ task_first_ping(TRUE) /\ BoundedTcp
    \/ task_recv_reliable(TRUE) /\ BoundedTcp
    \/ task_recv_unreliable(TRUE) /\ BoundedTcp
    \/ task_tick(TRUE) /\ BoundedTcp
    \/ tcp_timer_advance /\ BoundedTcp
SpecClose == Init /\ [][NextClose]_vars

\* The connection seen from its receiver: every frame, over time; the sending
\* task writes its Pings and the Pongs.
NextPoll ==
    \/ tcp_timer_advance /\ BoundedTcp
    \/ \E ok \in BOOLEAN : task_first_ping(ok) /\ BoundedTcp
    \/ \E ok \in BOOLEAN : task_recv_reliable(ok) /\ BoundedTcp
    \/ \E ok \in BOOLEAN : task_tick(ok) /\ BoundedTcp
    \/ \E frame \in FrameInputs, overflow_checks \in BOOLEAN :
            poll(frame, overflow_checks) /\ BoundedTcp
SpecPoll == Init /\ [][NextPoll]_vars

\* The receiver's round-trip times at full width: the clock (timer.now_ms(), the
\* time of the host) starts near a multiple of 2^16 and moves on within
\* RttWindow of it; the peer answers with Pongs of old and of recent Pings.
RttClockInputs == {0, U16Mod - RttWindow, 2 * U16Mod - RttWindow}
RttSentInputs == {0, 1, U16Mod - 1, U16Mod}
Init_tcp_any ==
    /\ tcp_now \in RttClockInputs
    /\ r_queue = <<>>
    /\ unr_queue = <<>>
    /\ task = "start"
    /\ sender_alive = TRUE
    /\ wire_out = <<>>
    /\ poll_ret = <<>>
    /\ send_seq = 0
    /\ socket = "open"
BoundedRtt ==
    /\ (tcp_now' + RttWindow) % U16Mod <= 2 * RttWindow
    /\ Len(r_queue') <= MaxRQueue
    /\ UNCHANGED <<kv_vars, ver_vars, vnet_vars, conc_vars, mock_vars>>
NextRtt ==
    \/ tcp_timer_advance /\ BoundedRtt
    \/ \E frame \in PingInputs \cup {TcpMsg_Pong(ts) : ts \in RttSentInputs},
           overflow_checks \in BOOLEAN :
            poll(frame, overflow_checks) /\ BoundedRtt
InitRtt == Init_kv /\ Init_ver /\ Init_tcp_any /\ Init_vnet /\ Init_conc /\ Init_mock
SpecRtt == InitRtt /\ [][NextRtt]_vars

----------------------------------------------------------------------------
(* The virtual network fabric: VnetEarth *)

\* the ports and nodes of the run, and the (port, node, addr) arguments of
\* create_listener; no port is registered by node 3
VPorts == {100, 200}
VNodes == {1, 2, 3}
ListenerInputs == {<<100, 1, "addrA">>, <<200, 2, "addrB">>}
\* what the host does with an acceptor: accept, reject with a reason, or drop it
Accept == <<"Ok">>
Reject(reason) == <<"Err", reason>>
Dropped == <<"Dropped">>
OutgoingAcceptInputs == {Accept, Reject(<<"Custom", "r1">>), Dropped}
IncomingAcceptInputs == {Accept, Reject(<<"Custom", "r2">>), Dropped}

VNET_PROTOCOL_ID == "VNET_PROTOCOL_ID"
\* ConnId::from_out / ConnId::from_in on the protocol id and a counter value
ConnId_from_out(protocol, uuid) == [protocol |-> protocol, direction |-> "out", uuid |-> uuid]
ConnId_from_in(protocol, uuid) == [protocol |-> protocol, direction |-> "in", uuid |-> uuid]

Socket(node, addr, sender) == [node |-> node, addr |-> addr, sender |-> sender]

\* VnetListenerEvent
OutgoingRequest(node, conn, acceptor) ==
    [type |-> "OutgoingRequest", node |-> node, conn |-> conn, acceptor |-> acceptor]
IncomingRequest(node, conn, acceptor) ==
    [type |-> "IncomingRequest", node |-> node, conn |-> conn, acceptor |-> acceptor]
OutgoingErr(node, conn, err) == [type |-> "OutgoingErr", node |-> node, conn |-> conn, err |-> err]
Outgoing(sender, receiver) == [type |-> "Outgoing", sender |-> sender, receiver |-> receiver]
Incoming(sender, receiver) == [type |-> "Incoming", sender |-> sender, receiver |-> receiver]
BehaviorRejected(reason) == <<"BehaviorRejected", reason>>

\* a faulty Stats: no round trip time
first_stats_zero ==
    [rtt_ms |-> 0, sending_kbps |-> 0, send_est_kbps |-> 100000, loss_percent |-> 0,
     over_use |-> FALSE]

\* the ConnectionStats that each VnetConnectionReceiver starts with
first_stats ==
    [rtt_ms |-> 1, sending_kbps |-> 0, send_est_kbps |-> 100000, loss_percent |-> 0,
     over_use |-> FALSE]

VnetConnectionSender(remote_node_id, conn_id, remote_addr, sender, remote_sender) ==
    [remote_node_id |-> remote_node_id, conn_id |-> conn_id, remote_addr |-> remote_addr,
     sender |-> sender, remote_sender |-> remote_sender]
VnetConnectionReceiver(remote_node_id, conn_id, remote_addr, recv) ==
    [remote_node_id |-> remote_node_id, conn_id |-> conn_id, remote_addr |-> remote_addr,
     recv |-> recv, first_stats |-> Some(first_stats)]

\* Sender::send_blocking on the channel of listener l: it fails when the
\* VnetListener, which holds the receiver, was dropped
listener_closed(l) == ~listeners[l].alive
listener_send(ls, l, ev) == [ls EXCEPT ![l].events = Append(@, ev)]

\* pub fn create_listener: the socket of the port is put in place (and takes the
\* place of an earlier one); `ports.write()` waits for the calls that hold
\* `ports.read()`
create_listener(port, node, addr) ==
    /\ \A th \in Threads : calls[th].pc = "idle"
    /\ listeners' = Append(listeners, [alive |-> TRUE, events |-> <<>>])
    /\ ports' = Insert(ports, port, Socket(node, addr, Len(listeners) + 1))
    /\ UNCHANGED <<conn_id_seed, connections, attempts, outgoing_ret>>

\* the host drops a VnetListener: its receiver is gone, its port stays registered
listener_drop(l) ==
    /\ listeners[l].alive
    /\ listeners' = [listeners EXCEPT ![l].alive = FALSE]
    /\ UNCHANGED <<conn_id_seed, ports, connections, attempts, outgoing_ret>>

\* a faulty node check: every node passes
node_matches_any(to_socket, to_node) == TRUE

\* create_outgoing: `to_socket.node == to_node`
node_matches(to_socket, to_node) == to_socket.node = to_node

\* a faulty report of an unregistered to_port: the wrong error
not_found_event_auth(to_node, conn_id_out, conn_id_in) ==
    OutgoingErr(to_node, conn_id_in, "AuthenticationError")

\* create_outgoing, to_port not registered: the event for the originator
not_found_event(to_node, conn_id_out, conn_id_in) ==
    OutgoingErr(to_node, conn_id_in, "DestinationNotFound")

\* create_outgoing, an error branch: the event is sent to the originator's
\* listener; `.expect` panics when that listener was dropped
report_error(from_socket, event, conn_id_out) ==
    /\ IF listener_closed(from_socket.sender)
       THEN /\ outgoing_ret' = <<"panic">>
            /\ UNCHANGED listeners
       ELSE /\ listeners' = listener_send(listeners, from_socket.sender, event)
            /\ outgoing_ret' = <<"Some", conn_id_out>>
    /\ UNCHANGED <<connections, attempts>>

\* create_outgoing, both checks passed: the connection is recorded, the task is
\* spawned, and the two requests are sent, each with its acceptor; a panic of
\* `.expect` drops the acceptors that were not sent
request_connection(to_node, from_socket, to_socket, conn_id_out, conn_id_in) ==
    LET acceptor(side) == <<Len(attempts) + 1, side>>
        spawned(outgoing_res, incoming_res) ==
            [to_node |-> to_node, conn_id_out |-> conn_id_out, conn_id_in |-> conn_id_in,
             from_socket |-> from_socket, to_socket |-> to_socket,
             outgoing_res |-> outgoing_res, incoming_res |-> incoming_res,
             state |-> "waiting"]
        with_outgoing == listener_send(listeners, from_socket.sender,
                            OutgoingRequest(to_node, conn_id_out, acceptor("outgoing")))
        with_both == listener_send(with_outgoing, to_socket.sender,
                            IncomingRequest(from_socket.node, conn_id_in, acceptor("incoming")))
    IN  /\ connections' = Insert(connections, conn_id_out, <<from_socket.node, to_socket.node>>)
        /\ IF listener_closed(from_socket.sender)
           THEN /\ outgoing_ret' = <<"panic">>
                /\ UNCHANGED listeners
                /\ attempts' = Append(attempts, spawned(Dropped, Dropped))
           ELSE IF listener_closed(to_socket.sender)
           THEN /\ outgoing_ret' = <<"panic">>
                /\ listeners' = with_outgoing
                /\ attempts' = Append(attempts, spawned(<<>>, Dropped))
           ELSE /\ outgoing_ret' = <<"Some", conn_id_out>>
                /\ listeners' = with_both
                /\ attempts' = Append(attempts, spawned(<<>>, <<>>))

\* a faulty counter: the addition is lost
fetch_add_lost(v, n) == v

\* AtomicU64::fetch_add(n): the value the counter holds afterwards; the call
\* returns the value v it held before (the counter stays far below 2^64)
fetch_add(v, n) == v + n

\* create_outgoing, from the lookup of to_port to the return value
route_outgoing(from_port, to_node, to_port, conn_id_out, conn_id_in) ==
    LET from_socket == ports[from_port]
    IN  /\ UNCHANGED ports
        /\ IF to_port \in DOMAIN ports
           THEN IF node_matches(ports[to_port], to_node)
                THEN request_connection(to_node, from_socket, ports[to_port],
                                        conn_id_out, conn_id_in)
                ELSE report_error(from_socket,
                       OutgoingErr(to_node, conn_id_out, "AuthenticationError"),
                       conn_id_out)
           ELSE report_error(from_socket,
                   not_found_event(to_node, conn_id_out, conn_id_in), conn_id_out)

\* pub fn create_outgoing, run by one thread with no other call under way
create_outgoing(from_port, to_node, to_port) ==
    IF from_port = to_port
    THEN \* assert_ne! panics
         /\ outgoing_ret' = <<"panic">>
         /\ UNCHANGED <<conn_id_seed, ports, listeners, connections, attempts>>
    ELSE IF from_port \notin DOMAIN ports
    THEN /\ outgoing_ret' = <<"None">>
         /\ UNCHANGED <<conn_id_seed, ports, listeners, connections, attempts>>
    ELSE LET conn_id_out == ConnId_from_out(VNET_PROTOCOL_ID, conn_id_seed)
             conn_id_in == ConnId_from_in(VNET_PROTOCOL_ID, fetch_add(conn_id_seed, 1))
         IN  /\ conn_id_seed' = fetch_add(fetch_add(conn_id_seed, 1), 1)
             /\ route_outgoing(from_port, to_node, to_port, conn_id_out, conn_id_in)

\* pub fn create_outgoing run by several threads at once, in its steps: the
\* checks and `ports.read()`, the two `fetch_add`, and the rest under the read
\* lock, which is shared
call_begin(th, from_port, to_node, to_port) ==
    /\ calls[th].pc = "idle"
    /\ IF from_port = to_port
       THEN outgoing_ret' = <<"panic">> /\ UNCHANGED calls
       ELSE IF from_port \notin DOMAIN ports
       THEN outgoing_ret' = <<"None">> /\ UNCHANGED calls
       ELSE /\ calls' = [calls EXCEPT ![th] = [idle EXCEPT !.pc = "fetch_out",
                            !.from_port = from_port, !.to_node = to_node, !.to_port = to_port]]
            /\ UNCHANGED outgoing_ret
    /\ UNCHANGED <<conn_id_seed, ports, listeners, connections, attempts, allocated>>
call_fetch_out(th) ==
    LET conn_id_out == ConnId_from_out(VNET_PROTOCOL_ID, conn_id_seed)
    IN  /\ calls[th].pc = "fetch_out"
        /\ conn_id_seed' = fetch_add(conn_id_seed, 1)
        /\ calls' = [calls EXCEPT ![th].pc = "fetch_in", ![th].conn_id_out = conn_id_out]
        /\ allocated' = Append(allocated, conn_id_out)
        /\ UNCHANGED <<ports, listeners, connections, attempts, outgoing_ret>>
call_fetch_in(th) ==
    LET conn_id_in == ConnId_from_in(VNET_PROTOCOL_ID, conn_id_seed)
    IN  /\ calls[th].pc = "fetch_in"
        /\ conn_id_seed' = fetch_add(conn_id_seed, 1)
        /\ calls' = [calls EXCEPT ![th].pc = "route", ![th].conn_id_in = conn_id_in]
        /\ allocated' = Append(allocated, conn_id_in)
        /\ UNCHANGED <<ports, listeners, connections, attempts, outgoing_ret>>
call_route(th) ==
    LET c == calls[th]
    IN  /\ c.pc = "route"
        /\ route_outgoing(c.from_port, c.to_node, c.to_port, c.conn_id_out, c.conn_id_in)
        /\ calls' = [calls EXCEPT ![th] = idle]
        /\ UNCHANGED <<conn_id_seed, allocated>>

\* the host resolves the acceptor of an OutgoingRequest / IncomingRequest
accept_outgoing(a, res) ==
    /\ attempts[a].outgoing_res = <<>>
    /\ attempts' = [attempts EXCEPT ![a].outgoing_res = res]
    /\ UNCHANGED <<conn_id_seed, ports, listeners, connections, outgoing_ret>>
accept_incoming(a, res) ==
    /\ attempts[a].incoming_res = <<>>
    /\ attempts' = [attempts EXCEPT ![a].incoming_res = res]
    /\ UNCHANGED <<conn_id_seed, ports, listeners, connections, outgoing_ret>>

\* a faulty match: the incoming side's reason goes first
attempt_err_incoming_first(outgoing_res, incoming_res) ==
    CASE outgoing_res = Accept /\ incoming_res = Accept -> None
      [] incoming_res[1] = "Err" -> Some(incoming_res[2])
      [] incoming_res[1] # "Err" /\ outgoing_res[1] = "Err" -> Some(outgoing_res[2])
      [] OTHER -> Some(<<"Custom", "ChannelError">>)

\* the spawned task, `match (outgoing_res, incoming_res)`
attempt_err(outgoing_res, incoming_res) ==
    CASE outgoing_res = Accept /\ incoming_res = Accept -> None
      [] outgoing_res[1] = "Err" -> Some(outgoing_res[2])
      [] outgoing_res[1] # "Err" /\ incoming_res[1] = "Err" -> Some(incoming_res[2])
      [] OTHER -> Some(<<"Custom", "ChannelError">>)

\* a faulty pair for the target: its sender writes into the originator's own channel
incoming_pair_uncrossed(a, t) ==
    Incoming(VnetConnectionSender(t.from_socket.node, t.conn_id_in, t.from_socket.addr,
                                  <<a, "from">>, <<a, "from">>),
             VnetConnectionReceiver(t.from_socket.node, t.conn_id_in, t.from_socket.addr,
                                    <<a, "to">>))

\* the spawned task: the connection objects for the originator and for the
\* target; <<a, "from">> and <<a, "to">> are the two channels of the attempt
outgoing_pair(a, t) ==
    Outgoing(VnetConnectionSender(t.to_socket.node, t.conn_id_out, t.to_socket.addr,
                                  <<a, "from">>, <<a, "to">>),
             VnetConnectionReceiver(t.to_socket.node, t.conn_id_out, t.to_socket.addr,
                                    <<a, "from">>))
incoming_pair(a, t) ==
    Incoming(VnetConnectionSender(t.from_socket.node, t.conn_id_in, t.from_socket.addr,
                                  <<a, "to">>, <<a, "from">>),
             VnetConnectionReceiver(t.from_socket.node, t.conn_id_in, t.from_socket.addr,
                                    <<a, "to">>))

\* the spawned task, once both acceptors are resolved (or dropped): it reports
\* the rejection, or delivers the two connections; `.expect` / `.unwrap` panic
\* when the listener they send to was dropped
attempt_task(a) ==
    LET t == attempts[a]
        err == attempt_err(t.outgoing_res, t.incoming_res)
        from == t.from_socket.sender
        to == t.to_socket.sender
        with_outgoing == listener_send(listeners, from, outgoing_pair(a, t))
    IN  /\ t.state = "waiting"
        /\ t.outgoing_res # <<>>
        /\ t.incoming_res # <<>>
        /\ IF listener_closed(from)
           THEN /\ attempts' = [attempts EXCEPT ![a].state = "panicked"]
                /\ UNCHANGED listeners
           ELSE IF err # None
           THEN /\ attempts' = [attempts EXCEPT ![a].state = "done"]
                /\ listeners' = listener_send(listeners, from,
                        OutgoingErr(t.to_node, t.conn_id_out, BehaviorRejected(err[1])))
           ELSE IF listener_closed(to)
           THEN /\ attempts' = [attempts EXCEPT ![a].state = "panicked"]
                /\ listeners' = with_outgoing
           ELSE /\ attempts' = [attempts EXCEPT ![a].state = "done"]
                /\ listeners' = listener_send(with_outgoing, to, incoming_pair(a, t))
        /\ UNCHANGED <<conn_id_seed, ports, connections, outgoing_ret>>

\* the bounds of a run of the fabric; the other subsystems stand still
BoundedVnet ==
    /\ conn_id_seed' <= MaxConnIdSeed
    /\ Len(listeners') <= MaxListeners
    /\ UNCHANGED <<kv_vars, ver_vars, tcp_vars, conc_vars, mock_vars>>

\* The fabric: hosts register listeners and drop them, connect, and resolve the
\* acceptors; the spawned tasks run.
NextVnet ==
    \/ \E in \in ListenerInputs : create_listener(in[1], in[2], in[3]) /\ BoundedVnet
    \/ \E l \in DOMAIN listeners : listener_drop(l) /\ BoundedVnet
    \/ \E from_port \in VPorts, to_node \in VNodes, to_port \in VPorts :
            create_outgoing(from_port, to_node, to_port) /\ BoundedVnet
    \/ \E a \in DOMAIN attempts, res \in OutgoingAcceptInputs : accept_outgoing(a, res) /\ BoundedVnet
    \/ \E a \in DOMAIN attempts, res \in IncomingAcceptInputs : accept_incoming(a, res) /\ BoundedVnet
    \/ \E a \in DOMAIN attempts : attempt_task(a) /\ BoundedVnet
SpecVnet == Init /\ [][NextVnet]_vars

\* the bounds of a run of concurrent calls; the other subsystems stand still
BoundedConc ==
    /\ conn_id_seed' <= MaxConcSeed
    /\ Len(listeners') <= MaxListeners
    /\ UNCHANGED <<kv_vars, ver_vars, tcp_vars, mock_vars>>

\* The fabric with its callers on several threads: listeners are registered, and
\* the steps of the create_outgoing() calls interleave.
NextConc ==
    \/ \E in \in ListenerInputs :
            create_listener(in[1], in[2], in[3]) /\ UNCHANGED conc_vars /\ BoundedConc
    \/ \E th \in Threads, from_port \in VPorts, to_node \in VNodes, to_port \in VPorts :
            call_begin(th, from_port, to_node, to_port) /\ BoundedConc
    \/ \E th \in Threads : call_fetch_out(th) /\ BoundedConc
    \/ \E th \in Threads : call_fetch_in(th) /\ BoundedConc
    \/ \E th \in Threads : call_route(th) /\ BoundedConc
SpecConc == Init /\ [][NextConc]_vars

\* The fabric with its tasks scheduled fairly: a spawned task whose acceptors
\* are both resolved runs in the end (async_std runs every ready task).
SpecVnetFair ==
    /\ SpecVnet
    /\ \A a \in 1..(MaxConnIdSeed \div 2) :
            WF_vars(a \in DOMAIN attempts /\ attempt_task(a) /\ BoundedVnet)

----------------------------------------------------------------------------
(* The mock transport: MockTransport and MockTransportConnector *)

\* the (peer_id, dest) arguments of connect_to
ConnectInputs == {<<1, "addr1">>, <<2, "addr2">>}
\* values of the shared counter left by earlier connect_to() calls: none yet, and
\* u32::MAX - 1
MockSeedInputs == {<<0, 0>>, <<U16Mod - 1, U16Mod - 2>>}

ConnectTo(peer_id, dest) == [type |-> "ConnectTo", peer_id |-> peer_id, dest |-> dest]
TransportPendingOutgoing(connection_id) == [connection_id |-> connection_id]
Ok(x) == <<"Ok", x>>

\* `a < b` on u32
lt_u32(a, b) == a[1] < b[1] \/ (a[1] = b[1] /\ a[2] < b[2])

\* a faulty counter: it stands still
fetch_add_u32_stuck(v) == v

\* AtomicU32::fetch_add(1): the value the counter holds afterwards (it wraps at
\* 2^32); the call returns the value v it held before
fetch_add_u32(v) ==
    IF v[2] < U16Mod - 1 THEN <<v[1], v[2] + 1>> ELSE <<(v[1] + 1) % U16Mod, 0>>

\* MockTransport::connector: a handle on the transport's output and counter
connector ==
    /\ connectors' = connectors + 1
    /\ UNCHANGED <<mock_conn_id, mock_output, connect_log>>

\* MockTransportConnector::connect_to on handle c
connect_to(c, peer_id, dest) ==
    LET conn_id == mock_conn_id
    IN  /\ c \in 1..connectors
        /\ mock_conn_id' = fetch_add_u32(mock_conn_id)
        /\ mock_output' = Append(mock_output, ConnectTo(peer_id, dest))
        /\ connect_log' = Append(connect_log,
                [connector |-> c, peer_id |-> peer_id, dest |-> dest,
                 ret |-> Ok(TransportPendingOutgoing(conn_id))])
        /\ UNCHANGED connectors

\* the bounds of a run of the mock transport; the other subsystems stand still
BoundedMock ==
    /\ connectors' <= MaxConnectors
    /\ Len(connect_log') <= MaxConnects
    /\ UNCHANGED <<kv_vars, ver_vars, tcp_vars, vnet_vars, conc_vars>>

Init_mock_any ==
    /\ mock_conn_id \in MockSeedInputs
    /\ mock_output = <<>>
    /\ connectors = 0
    /\ connect_log = <<>>

\* The mock transport: handles are made and used, in any order.
NextMock ==
    \/ connector /\ BoundedMock
    \/ \E c \in 1..MaxConnectors, in \in ConnectInputs : connect_to(c, in[1], in[2]) /\ BoundedMock
InitMock == Init_kv /\ Init_ver /\ Init_tcp /\ Init_vnet /\ Init_conc /\ Init_mock_any
SpecMock == InitMock /\ [][NextMock]_vars

----------------------------------------------------------------------------
(* Properties of SimpleLocalStorage *)

\* a step of tick(), whatever the iteration orders
TickStep == \E data_order \in KeyOrders, sub_order \in KeyOrders : tick(data_order, sub_order)
\* the actions a step appends to output_events
new_events == SubSeq(output_events', Len(output_events) + 1, Len(output_events'))
\* the places in evs of the events of the given kinds about a key
events_for(evs, types, key) ==
    {i \in DOMAIN evs : evs[i].ev.type \in types /\ evs[i].ev.key = key}
IsPrefix(a, b) == Len(a) <= Len(b) /\ SubSeq(b, 1, Len(a)) = a

\* C1: once a SetAck with the slot's version has acked a set of key k, a tick()
\* enqueues no action for k while now < (time of the ack) + sync_each_ms, unless
\* a new set or del on k came in between.
C1_NoResendBeforeSyncPeriod ==
    [][TickStep =>
        \A k \in Keys :
            (/\ k \in DOMAIN data
             /\ data[k].acked
             /\ data[k].value # None
             /\ set_acked_at[k] # None
             /\ timer_now < set_acked_at[k][1] + SyncEachMs)
            => events_for(new_events, {"Set", "Del"}, k) = {}]_vars

\* C2: a tick() enqueues exactly one action for each data slot that is not acked
\* and exactly one for each subscribe slot that is not acked; the action is
\* Set(req, key, value, version, ex) when the slot holds a value and
\* Del(req, key, version) when not, Sub(req, key, ex) when sub and Unsub(req, key)
\* when not, routed ToKey(key), with request ids handed out by this tick and
\* pairwise distinct; the slot is left as it was.
C2_TickResendsUnacked ==
    [][TickStep =>
        /\ \A k \in Keys :
            (k \in DOMAIN data /\ ~data[k].acked) =>
                LET is == events_for(new_events, {"Set", "Del"}, k)
                IN  /\ Cardinality(is) = 1
                    /\ \A i \in is :
                        LET req == new_events[i].ev.req
                            slot == data[k]
                        IN  /\ req \in req_id_seed..(req_id_seed' - 1)
                            /\ new_events[i] =
                                 LocalStorageAction(
                                    IF slot.value # None
                                    THEN EvSet(req, k, slot.value[1], slot.version, slot.ex)
                                    ELSE EvDel(req, k, slot.version),
                                    ToKey(k))
                    /\ k \in DOMAIN data' /\ data'[k] = data[k]
        /\ \A k \in Keys :
            (k \in DOMAIN subscribe_map /\ ~subscribe_map[k].acked) =>
                LET is == events_for(new_events, {"Sub", "Unsub"}, k)
                IN  /\ Cardinality(is) = 1
                    /\ \A i \in is :
                        LET req == new_events[i].ev.req
                            slot == subscribe_map[k]
                        IN  /\ req \in req_id_seed..(req_id_seed' - 1)
                            /\ new_events[i] =
                                 LocalStorageAction(
                                    IF slot.sub THEN EvSub(req, k, slot.ex) ELSE EvUnsub(req, k),
                                    ToKey(k))
                    /\ k \in DOMAIN subscribe_map' /\ subscribe_map'[k] = subscribe_map[k]
        /\ \A i, j \in DOMAIN new_events :
            i # j => new_events[i].ev.req # new_events[j].ev.req]_vars
\* a tick has sent again an unacked Set (request 2) and an unacked Sub (request 3)
C2_Witness ==
    /\ Len(output_events) = 4
    /\ output_events[1].ev.type = "Set" /\ output_events[2].ev.type = "Sub"
    /\ output_events[3].ev.type = "Set" /\ output_events[3].ev.req = 2
    /\ output_events[4].ev.type = "Sub" /\ output_events[4].ev.req = 3
    /\ output_events[3].ev.version = output_events[1].ev.version
    /\ \E k \in DOMAIN data : ~data[k].acked
    /\ \E k \in DOMAIN subscribe_map : ~subscribe_map[k].acked

\* C3: pop_action() returns the oldest queued action and removes it, or returns
\* None and changes nothing when the queue is empty; every other call only
\* appends to the queue. So actions leave in the order they were put in, each once.
C3_PopIsFifo ==
    [][\/ /\ pop_action
          /\ output_events = <<>>
          /\ fx'.ret = <<"None">>
          /\ output_events' = <<>>
       \/ /\ pop_action
          /\ output_events # <<>>
          /\ fx'.ret = <<"Some", Head(output_events)>>
          /\ output_events' = Tail(output_events)
       \/ /\ ~pop_action
          /\ IsPrefix(output_events, output_events')]_vars
\* the older of two queued actions (a Set) has been returned, the younger (a Get)
\* is still queued
C3_Witness ==
    /\ fx.ret # Unit /\ fx.ret[1] = "Some" /\ fx.ret[2].ev.type = "Set"
    /\ fx.ret[2].ev.req = 0
    /\ Len(output_events) = 1
    /\ output_events[1].ev.type = "Get" /\ output_events[1].ev.req = 1

\* C4: a get(k, cb, t) called at time t0 and not answered by a GetAck is resolved
\* by the first tick() with now >= t0 + t: cb is called once with Err(Timeout) and
\* the slot is removed; a tick() with now < t0 + t does not call cb; no callback
\* is ever called twice.
C4_GetTimesOutAtDeadline ==
    [][/\ TickStep =>
            \A req \in DOMAIN get_queue :
                LET c == get_queue[req].callback
                    t0 == get_issued[c].now
                    t == get_issued[c].timeout_ms
                    \* t0 + t as a number; with t = u64::MAX it is above every clock value
                    due == t >= 0 /\ timer_now >= t0 + t
                IN  IF due
                    THEN /\ req \notin DOMAIN get_queue'
                         /\ cb_results'[c] = <<<<"Err", "Timeout">>>>
                    ELSE /\ req \in DOMAIN get_queue'
                         /\ cb_results'[c] = <<>>
       /\ \A c \in DOMAIN cb_results' : Len(cb_results'[c]) <= 1]_vars

\* C8: for an acked data slot that holds a value (an acked subscribe slot with
\* sub = true), tick() enqueues one Set (one Sub) restating the slot exactly when
\* now - last_sync >= sync_each_ms, and then sets last_sync = now; otherwise it
\* enqueues nothing for the key and leaves the slot alone; the slot stays acked.
C8_PeriodicResync ==
    [][TickStep =>
        /\ \A k \in Keys :
            (k \in DOMAIN data /\ data[k].acked /\ data[k].value # None) =>
                LET is == events_for(new_events, {"Set", "Del"}, k)
                    slot == data[k]
                IN  IF timer_now - slot.last_sync >= SyncEachMs
                    THEN /\ Cardinality(is) = 1
                         /\ \A i \in is :
                              new_events[i] = LocalStorageAction(
                                  EvSet(new_events[i].ev.req, k, slot.value[1], slot.version,
                                        slot.ex), ToKey(k))
                         /\ k \in DOMAIN data'
                         /\ data'[k] = [slot EXCEPT !.last_sync = timer_now]
                    ELSE /\ is = {}
                         /\ k \in DOMAIN data' /\ data'[k] = slot
        /\ \A k \in Keys :
            (k \in DOMAIN subscribe_map /\ subscribe_map[k].acked /\ subscribe_map[k].sub) =>
                LET is == events_for(new_events, {"Sub", "Unsub"}, k)
                    slot == subscribe_map[k]
                IN  IF timer_now - slot.last_sync >= SyncEachMs
                    THEN /\ Cardinality(is) = 1
                         /\ \A i \in is :
                              new_events[i] = LocalStorageAction(
                                  EvSub(new_events[i].ev.req, k, slot.ex), ToKey(k))
                         /\ k \in DOMAIN subscribe_map'
                         /\ subscribe_map'[k] = [slot EXCEPT !.last_sync = timer_now]
                    ELSE /\ is = {}
                         /\ k \in DOMAIN subscribe_map' /\ subscribe_map'[k] = slot]_vars
\* an acked Set has been sent again at clock 1 and at clock 2
C8_Witness ==
    /\ timer_now = 2
    /\ 1 \in DOMAIN data /\ data[1].acked /\ data[1].value # None /\ data[1].last_sync = 2
    /\ Len(output_events) = 3
    /\ \A i \in 1..3 : /\ output_events[i].ev.type = "Set"
                       /\ output_events[i].ev.req = i - 1
                       /\ output_events[i].ev.version = data[1].version

\* C9: a SetAck with success = false, or with a version other than the slot's,
\* or for a key without a data slot, changes no field of the agent; a tick()
\* sends every unacked data slot again with the slot's current version.
C9_RejectedSetAckChangesNothing ==
    [][/\ \A k \in Keys : \A event \in DataAckInputs(k) :
            (/\ event.type = "SetAck"
             /\ ~(event.success /\ k \in DOMAIN data /\ data[k].version = event.version)
             /\ on_event(2, event))
            => UNCHANGED <<timer_now, req_id_seed, version_seed, data, subscribe_map,
                           output_events, get_queue, cb_results>>
       /\ TickStep =>
            \A k \in Keys :
                (k \in DOMAIN data /\ ~data[k].acked) =>
                    \E i \in events_for(new_events, {"Set", "Del"}, k) :
                        new_events[i].ev.version = data[k].version]_vars
\* an unacked set has been sent again with its version, by a tick that followed
\* calls which changed nothing
C9_Witness ==
    \E k \in DOMAIN data :
        /\ ~data[k].acked /\ data[k].value # None
        /\ Len(output_events) = 2
        /\ \A i \in 1..2 : /\ output_events[i].ev.type = "Set"
                           /\ output_events[i].ev.key = k
                           /\ output_events[i].ev.version = data[k].version
        /\ output_events[1].ev.req = 0 /\ output_events[2].ev.req = 1
        /\ req_id_seed = 2

\* C10: a DelAck(k, dv) sets acked on k's data slot when the slot exists and dv
\* is None or dv <= slot.version, and changes no slot otherwise; a tick() enqueues
\* nothing for an acked slot that holds no value.
C10_DelAckAcceptance ==
    [][/\ \A k \in Keys : \A event \in DataAckInputs(k) :
            (event.type = "DelAck" /\ on_event(2, event)) =>
                IF k \in DOMAIN data
                   /\ (event.version = None \/ event.version[1] <= data[k].version)
                THEN data' = [data EXCEPT ![k].acked = TRUE]
                ELSE data' = data
       /\ TickStep =>
            \A k \in Keys :
                (k \in DOMAIN data /\ data[k].acked /\ data[k].value = None) =>
                    events_for(new_events, {"Set", "Del"}, k) = {}]_vars
\* a del has been acked at clock 0, where a tick leaves the acked slot in place:
\* the slot holds no value and is acked, and the Del of the del() call is the
\* last action enqueued
C10_Witness ==
    \E k \in DOMAIN data :
        /\ data[k].acked /\ data[k].value = None
        /\ timer_now = 0
        /\ fx = Fx(Unit, 0, <<>>)
        /\ Len(output_events) = 2
        /\ output_events[2] = LocalStorageAction(EvDel(1, k, data[k].version), ToKey(k))

----------------------------------------------------------------------------
(* Properties of version generation *)

\* whether the versions of the i-th and j-th logged call are in order / differ
VersionsAscend(i, j) == lt_u64(ver_log[i].version, ver_log[j].version)
\* every seed that the 65 535 calls after one with seed s can use differs from s,
\* so at one clock value the versions of 65 536 calls in a row differ
SeedPeriodIsFull(now, s) ==
    \A d \in 1..(U16Mod - 1) :
        gen_version(now, (s + d) % U16Mod).version # gen_version(now, s).version

\* C5: of two set() calls at clock values t1 < t2 the second gets the greater
\* version, and calls in a row at one clock value (up to 65 536 of them) get
\* versions that differ.
C5_VersionsAscendWithClock ==
    /\ \A i, j \in DOMAIN ver_log :
        i < j =>
            /\ lt_u64(ver_log[i].now, ver_log[j].now) => VersionsAscend(i, j)
            /\ ver_log[i].now = ver_log[j].now => ver_log[i].version # ver_log[j].version
    /\ ver_log = <<>> => SeedPeriodIsFull(ver_now, ver_seed)

\* C5, for clock values below 2^48: of two set() calls at clock values
\* t1 < t2 < 2^48 the second gets the greater version, and calls in a row at one
\* clock value (up to 65 536 of them) get versions that differ.
C5_VersionsAscendBelow2p48 ==
    /\ \A i, j \in DOMAIN ver_log :
        i < j =>
            /\ (lt_u64(ver_log[i].now, ver_log[j].now) /\ ver_log[j].now[1] = 0)
                    => VersionsAscend(i, j)
            /\ ver_log[i].now = ver_log[j].now => ver_log[i].version # ver_log[j].version
    /\ ver_log = <<>> => SeedPeriodIsFull(ver_now, ver_seed)
\* two calls at one clock value across the wrap of the seed, then one at a later
\* clock value below 2^48
C5_Witness ==
    /\ Len(ver_log) = 3
    /\ ver_log[1].now = ver_log[2].now
    /\ ver_log[1].version[4] = U16Mod - 1 /\ ver_log[2].version[4] = 0
    /\ lt_u64(ver_log[2].now, ver_log[3].now) /\ ver_log[3].now[1] = 0

\* C30: the versions of set() calls in a row at one clock value never go down
\* (up to 65 536 calls), whatever the seed at the first of them, across the
\* wrap of the seed too.
C30_VersionsAscendAtOneClock ==
    \A i, j \in DOMAIN ver_log :
        (i < j /\ ver_log[i].now = ver_log[j].now)
        => ~lt_u64(ver_log[j].version, ver_log[i].version)

----------------------------------------------------------------------------
(* Properties of the TCP connection *)

IsReliable(frame) == frame.type = "Msg" /\ frame.msg.kind = "Reliable"

\* C6: the Reliable messages on the socket are in the order in which send() put
\* them in the queue (send() tags them with increasing ids), whatever unreliable
\* messages, Pings and Pongs are written between them.
C6_ReliableOrderKept ==
    \A i, j \in DOMAIN wire_out :
        (i < j /\ IsReliable(wire_out[i]) /\ IsReliable(wire_out[j]))
            => wire_out[i].msg.id < wire_out[j].msg.id
\* a Reliable message, then an Unreliable one, then a Reliable one were written
C6_Witness ==
    /\ Len(wire_out) = 3
    /\ IsReliable(wire_out[1])
    /\ wire_out[2].type = "Msg" /\ wire_out[2].msg.kind = "Unreliable"
    /\ IsReliable(wire_out[3])

\* C7: every Ping(t) that poll() reads puts exactly one Pong(t) at the end of the
\* reliable queue, in every state of the connection, also after close() and after
\* the sending task has ended; poll() returns no event for the Ping.
C7_PingAlwaysAnswered ==
    [][\A frame \in PingInputs :
            poll(frame, FALSE) =>
                /\ r_queue' = Append(r_queue, OutgoingEvent_Msg(TcpMsg_Pong(frame.ts)))
                /\ poll_ret' = <<"Pending">>]_vars

\* C7, while the sending task lives: a Ping(t) that poll() reads puts exactly one
\* Pong(t) at the end of the reliable queue if the sending task has not ended,
\* and changes no queue if it has; poll() returns no event for the Ping and
\* writes nothing; a Pong gets on the socket only when the task, in its loop,
\* takes it from the head of the reliable queue.
C7_PingAnsweredWhileTaskLives ==
    [][/\ \A frame \in PingInputs :
            poll(frame, FALSE) =>
                /\ r_queue' = IF task = "done"
                              THEN r_queue
                              ELSE Append(r_queue, OutgoingEvent_Msg(TcpMsg_Pong(frame.ts)))
                /\ poll_ret' = <<"Pending">>
                /\ UNCHANGED <<unr_queue, wire_out, task>>
       /\ (Len(wire_out') > Len(wire_out) /\ wire_out'[Len(wire_out')].type = "Pong") =>
            /\ task = "loop"
            /\ r_queue # <<>>
            /\ Head(r_queue) = OutgoingEvent_Msg(wire_out'[Len(wire_out')])
            /\ r_queue' = Tail(r_queue)]_vars
\* the Pong of a Ping(1) is on the socket, the Pong of a Ping(0) waits in the queue
C7_Witness ==
    /\ poll_ret = <<"Pending">>
    /\ task = "loop"
    /\ \E i \in DOMAIN wire_out : wire_out[i] = TcpMsg_Pong(1)
    /\ r_queue = <<OutgoingEvent_Msg(TcpMsg_Pong(0))>>

----------------------------------------------------------------------------
(* Properties of SimpleLocalStorage: key events, subscribe, del, the awaker *)

\* the ack that answers an OnKeySet / OnKeyDel event
key_event_ack(event) ==
    IF event.type = "OnKeySet" THEN EvOnKeySetAck(event.req) ELSE EvOnKeyDelAck(event.req)

\* C11: every on_event(from, OnKeySet(req, k, ..)) / OnKeyDel(req, k, ..) appends
\* exactly one OnKeySetAck(req) / OnKeyDelAck(req) routed ToNode(from), whether k
\* is subscribed or not; when k has a subscribe slot with sub = true, acked or
\* not, the call invokes the slot's handler exactly once, with
\* (k, Some(value), version, source) resp. (k, None, version, source). The handler
\* runs inside the call, so handlers run in the order of the events.
C11_KeyEventAckedAndHandled ==
    [][\A k \in Keys, from \in Nodes : \A event \in KeyEventInputs(k) :
            on_event(from, event) =>
                /\ IsPrefix(output_events, output_events')
                /\ new_events = <<LocalStorageAction(key_event_ack(event), ToNode(from))>>
                /\ (k \in DOMAIN subscribe_map /\ subscribe_map[k].sub) =>
                        fx'.handler =
                            <<[handler |-> subscribe_map[k].handler, key |-> k,
                               value |-> IF event.type = "OnKeySet"
                                         THEN Some(event.value) ELSE None,
                               version |-> event.version, source |-> event.source]>>]_vars
\* an OnKeyDel from node 3 for a key whose subscribe slot is not acked yet: the
\* handler was called with no value, and the ack to node 3 is the newest action
C11_Witness ==
    \E k \in DOMAIN subscribe_map :
        /\ subscribe_map[k].sub /\ ~subscribe_map[k].acked
        /\ fx.handler = <<[handler |-> subscribe_map[k].handler, key |-> k, value |-> None,
                           version |-> 0, source |-> 9]>>
        /\ output_events # <<>>
        /\ output_events[Len(output_events)] =
                LocalStorageAction(EvOnKeyDelAck(5), ToNode(3))

\* C12: subscribe(k, ex, h) on a key that is not subscribed, that is a key
\* without a subscribe slot or with a slot that unsubscribe(k) has set to
\* sub = false and tick() has not removed yet, leaves the slot
\* {ex, last_sync = 0, sub = true, acked = false, handler = h} and appends
\* Sub(req, k, ex) routed ToKey(k).
C12_SubscribeWhenNotSubscribed ==
    [][\A k \in Keys, in \in SubInputs :
            (/\ k \notin DOMAIN subscribe_map \/ ~subscribe_map[k].sub
             /\ subscribe(k, in[1], in[2]))
            => /\ k \in DOMAIN subscribe_map'
               /\ subscribe_map'[k] = [ex |-> in[1], last_sync |-> 0, sub |-> TRUE,
                                       acked |-> FALSE, handler |-> in[2]]
               /\ IsPrefix(output_events, output_events')
               /\ new_events = <<LocalStorageAction(EvSub(req_id_seed, k, in[1]), ToKey(k))>>]_vars

\* C13: subscribe(k, ex2, h2) on a key whose subscribe slot has sub = true is
\* ignored: the slot (ex, handler, acked, last_sync) and every other field stay
\* as they are, no action is appended, no request id is taken and the awaker is
\* not notified; the handler that events for k go to is still the slot's.
C13_SubscribeTwiceIgnored ==
    [][\A k \in Keys, in \in SubInputs :
            (/\ k \in DOMAIN subscribe_map
             /\ subscribe_map[k].sub
             /\ subscribe(k, in[1], in[2]))
            => /\ UNCHANGED <<timer_now, req_id_seed, version_seed, data, subscribe_map,
                              output_events, get_queue, cb_results>>
               /\ fx'.notified = 0
               /\ fx'.handler = <<>>
               /\ \A from \in Nodes : \A event \in KeyEventInputs(k) :
                    \A c \in Range(call_handler(k, None, event.version, event.source)') :
                        c.handler = subscribe_map[k].handler]_vars
\* the key is subscribed with handler h1 and its first Sub (request 0) is the only
\* action; the latest call, made after the subscribe, took no request id, did
\* not notify and changed no slot
C13_Witness ==
    /\ 1 \in DOMAIN subscribe_map
    /\ subscribe_map[1] = [ex |-> <<>>, last_sync |-> 0, sub |-> TRUE, acked |-> FALSE,
                           handler |-> "h1"]
    /\ output_events = <<LocalStorageAction(EvSub(0, 1, <<>>), ToKey(1))>>
    /\ req_id_seed = 1
    /\ fx = Fx(Unit, 0, <<>>)

\* C14: del(k) on a key without a data slot does nothing: no slot is made, no
\* action is appended, the awaker is not notified and no field of the agent
\* changes, the request id counter included (so later actions carry the request
\* ids they would have carried without the call); the same for unsubscribe(k) on
\* a key without a subscribe slot.
C14_DelUnknownKeyIsNoop ==
    [][\A k \in Keys :
        /\ (k \notin DOMAIN data /\ del(k)) =>
                /\ UNCHANGED <<timer_now, req_id_seed, version_seed, data, subscribe_map,
                               output_events, get_queue, cb_results>>
                /\ fx'.notified = 0
        /\ (k \notin DOMAIN subscribe_map /\ unsubscribe(k)) =>
                /\ UNCHANGED <<timer_now, req_id_seed, version_seed, data, subscribe_map,
                               output_events, get_queue, cb_results>>
                /\ fx'.notified = 0]_vars

\* C15: each call of set, of get, of del on a key with a data slot, of subscribe
\* on a key without a subscribe slot and of unsubscribe on a key with one, that
\* returns, calls awake_notify.notify() exactly once; every other call (del and
\* unsubscribe on a key without a slot, subscribe on a key with one, on_event,
\* tick, pop_action) does not call it. So the awake count is the number of the
\* calls named first. (A get() whose `now_ms + timeout_ms` overflows in a build
\* with overflow checks does not return: it panics before the notify.)
C15_NotifyOncePerMutatingCall ==
    [][/\ fx'.notified = 1
          \/ ~(\/ \E k \in Keys, in \in SetInputs : set(k, in[1], in[2])
               \/ \E k \in Keys, timeout_ms \in TimeoutInputs, overflow_checks \in BOOLEAN :
                    get(k, timeout_ms, overflow_checks) /\ fx'.ret = Unit
               \/ \E k \in DOMAIN data : del(k)
               \/ \E k \in Keys \ DOMAIN subscribe_map, in \in SubInputs :
                    subscribe(k, in[1], in[2])
               \/ \E k \in DOMAIN subscribe_map : unsubscribe(k))
       /\ fx'.notified = 0
          \/ ~(\/ \E k \in Keys \ DOMAIN data : del(k)
               \/ \E k \in DOMAIN subscribe_map, in \in SubInputs : subscribe(k, in[1], in[2])
               \/ \E k \in Keys \ DOMAIN subscribe_map : unsubscribe(k)
               \/ \E k \in Keys, from \in Nodes :
                    \E event \in DataAckInputs(k) \cup SubAckInputs(k) \cup KeyEventInputs(k)
                                 \cup GetAckInputs :
                        on_event(from, event)
               \/ TickStep
               \/ pop_action)]_vars
\* a del on a key with a data slot has just returned: the slot holds no value, its
\* Del is the newest action, and the call notified the awaker once
C15_Witness ==
    /\ 1 \in DOMAIN data
    /\ data[1].value = None /\ ~data[1].acked
    /\ output_events # <<>>
    /\ output_events[Len(output_events)] =
            LocalStorageAction(EvDel(1, 1, data[1].version), ToKey(1))
    /\ fx = Fx(Unit, 1, <<>>)

----------------------------------------------------------------------------
(* Properties of the TCP connection: send and close *)

\* C16: send() of an Unreliable message never waits: it can be taken in every
\* state in which the sender exists; when the unreliable queue already holds
\* unreliable_queue_size events, the message is dropped, both queues stay as they
\* are and the call returns; send() of a Reliable message puts the message at the
\* end of the reliable queue whenever the sending task has not ended.
C16_UnreliableDroppedWhenFull ==
    /\ [](sender_alive => ENABLED send(0, "Unreliable"))
    /\ [][/\ (send(0, "Unreliable") /\ Len(unr_queue) >= UnreliableQueueSize) =>
                UNCHANGED <<unr_queue, r_queue, task, sender_alive, wire_out>>
          /\ (send(0, "Reliable") /\ task # "done") =>
                /\ r_queue' = Append(r_queue, OutgoingEvent_Msg(
                        TcpMsg_Msg(0, ConnectionMsg("Reliable", send_seq))))
                /\ UNCHANGED <<unr_queue, task, sender_alive, wire_out>>]_vars
\* the first message (Unreliable) fills the unreliable queue; the second message
\* is in no queue and was not written (the task has not started): it was dropped
C16_Witness ==
    /\ send_seq = 2
    /\ task = "start"
    /\ wire_out = <<>>
    /\ r_queue = <<>>
    /\ unr_queue = <<OutgoingEvent_Msg(TcpMsg_Msg(0, ConnectionMsg("Unreliable", 0)))>>
    /\ Len(unr_queue) = UnreliableQueueSize

\* C17: the reliable stream loses nothing: when the sending task takes the
\* CloseRequest of close(), shuts the socket down and ends, every Reliable message
\* that send() accepted before close() was called is on the socket (a close()
\* does not overtake the reliable messages sent before it).
C17_ReliableWrittenBeforeClose ==
    [][(/\ task = "loop" /\ task' = "done"
        /\ unr_queue # <<>> /\ Head(unr_queue) = CloseRequest
        /\ unr_queue' = Tail(unr_queue))
       => \A id \in 0..(send_seq - 1) :
            \E i \in DOMAIN wire_out :
                wire_out[i] = TcpMsg_Msg(0, ConnectionMsg("Reliable", id))]_vars

\* C24: a SetAck never acks a DataSlot whose latest mutation is del(): when the
\* slot of the key has value = None and acked = false, on_event(SetAck(_, key,
\* version, success)), whatever version and success, leaves the slot in place
\* with acked = false.
C24_SetAckNeverAcksDel ==
    [][\A event \in DataAckInputs(1) :
            (/\ event.type = "SetAck"
             /\ 1 \in DOMAIN data
             /\ data[1].value = None
             /\ ~data[1].acked
             /\ on_event(2, event))
            => (1 \in DOMAIN data' /\ ~data'[1].acked)]_vars

\* C25: a DelAck never acks a DataSlot whose latest mutation is set(): when the
\* slot of the key has value = Some and acked = false, on_event(DelAck(_, key,
\* dv)) with dv = None or dv <= slot.version leaves the slot in place with
\* acked = false.
C25_DelAckNeverAcksSet ==
    [][\A event \in DataAckInputs(1) :
            (/\ event.type = "DelAck"
             /\ 1 \in DOMAIN data
             /\ data[1].value # None
             /\ ~data[1].acked
             /\ (event.version = None \/ event.version[1] <= data[1].version)
             /\ on_event(2, event))
            => (1 \in DOMAIN data' /\ ~data'[1].acked)]_vars

\* the data / subscribe slot of key k is there and waits for its removal
del_acked(k) == k \in DOMAIN data /\ data[k].acked /\ data[k].value = None
unsub_acked(k) ==
    k \in DOMAIN subscribe_map /\ subscribe_map[k].acked /\ ~subscribe_map[k].sub

\* C26 as stated: a DataSlot that is acked with value = None is removed by the
\* next tick(), and so is a SubscribeSlot with sub = false and acked = true.
\* (No tick() from such a state leaves the slot in place.)
C26_RemovedByNextTick ==
    \A k \in Keys :
        /\ del_acked(k) => ~ENABLED (TickStep /\ k \in DOMAIN data')
        /\ unsub_acked(k) => ~ENABLED (TickStep /\ k \in DOMAIN subscribe_map')

\* C26, amended: del(k) keeps the DataSlot (value = None, acked = false), and a
\* tick() keeps every slot that is not acked and sends Del again for such a
\* slot without a value. A tick() removes the DataSlot that is acked with
\* value = None exactly when now - last_sync >= sync_each_ms (last_sync is 0
\* since the del), and keeps it, sending nothing for it, before. Likewise
\* unsubscribe(k) keeps the SubscribeSlot, a tick() sends Unsub again while it is
\* not acked, and removes it once sub = false and acked = true exactly when
\* now - last_sync >= sync_each_ms. No step removes a slot that is not acked.
C26_RemovedByTickWhenDue ==
    [][\A k \in Keys :
        /\ (k \in DOMAIN data /\ del(k))
            => (k \in DOMAIN data' /\ data'[k].value = None /\ ~data'[k].acked
                /\ data'[k].last_sync = 0)
        /\ (k \in DOMAIN subscribe_map /\ unsubscribe(k))
            => (k \in DOMAIN subscribe_map' /\ ~subscribe_map'[k].sub
                /\ ~subscribe_map'[k].acked /\ subscribe_map'[k].last_sync = 0)
        /\ TickStep =>
            /\ (k \in DOMAIN data /\ ~data[k].acked /\ data[k].value = None)
                => /\ k \in DOMAIN data'
                   /\ Cardinality(events_for(new_events, {"Del"}, k)) = 1
            /\ (k \in DOMAIN subscribe_map /\ ~subscribe_map[k].acked /\ ~subscribe_map[k].sub)
                => /\ k \in DOMAIN subscribe_map'
                   /\ Cardinality(events_for(new_events, {"Unsub"}, k)) = 1
            /\ del_acked(k)
                => /\ (k \notin DOMAIN data') <=> (timer_now - data[k].last_sync >= SyncEachMs)
                   /\ events_for(new_events, {"Set", "Del"}, k) = {}
            /\ unsub_acked(k)
                => /\ (k \notin DOMAIN subscribe_map')
                        <=> (timer_now - subscribe_map[k].last_sync >= SyncEachMs)
                   /\ events_for(new_events, {"Sub", "Unsub"}, k) = {}
        /\ (k \in DOMAIN data /\ k \notin DOMAIN data') => del_acked(k)
        /\ (k \in DOMAIN subscribe_map /\ k \notin DOMAIN subscribe_map') => unsub_acked(k)]_vars
\* key 1 was set and deleted (the Set and one Del are in output_events: the Del
\* was acked before any tick), and a tick at a clock of at least sync_each_ms
\* has removed the slot
C26_Witness ==
    /\ 1 \notin DOMAIN data
    /\ Cardinality(events_for(output_events, {"Set"}, 1)) = 1
    /\ Cardinality(events_for(output_events, {"Del"}, 1)) = 1
    /\ timer_now >= SyncEachMs

\* key k has no subscription: no subscribe slot, or one with sub = false
unsubscribed(k) == k \notin DOMAIN subscribe_map \/ ~subscribe_map[k].sub

\* C27: unsubscribe(k) on a subscribed key leaves the slot with sub = false, and
\* the slot keeps sub = false as long as it is there (subscribe(k) makes a slot
\* only once the old one is removed). While k has a slot with sub = false or no
\* slot, every on_event(from, OnKeySet / OnKeyDel for k), before or after the
\* UnsubAck, invokes no handler, and still appends exactly one OnKeySetAck(req) /
\* OnKeyDelAck(req) routed ToNode(from).
C27_NoHandlerAfterUnsubscribe ==
    [][\A k \in Keys :
        /\ (k \in DOMAIN subscribe_map /\ unsubscribe(k))
            => (k \in DOMAIN subscribe_map' /\ ~subscribe_map'[k].sub)
        /\ (k \in DOMAIN subscribe_map /\ ~subscribe_map[k].sub /\ k \in DOMAIN subscribe_map')
            => (~subscribe_map'[k].sub /\ subscribe_map'[k].handler = subscribe_map[k].handler)
        /\ unsubscribed(k)
            => \A from \in Nodes : \A event \in KeyEventInputs(k) :
                    on_event(from, event)
                    => /\ fx'.handler = <<>>
                       /\ IsPrefix(output_events, output_events')
                       /\ new_events =
                            <<LocalStorageAction(key_event_ack(event), ToNode(from))>>]_vars
\* key 1 was unsubscribed and its Unsub is not acked; an OnKeySet from node 3 came
\* afterwards: its ack is the newest action, and no handler was invoked
C27_Witness ==
    /\ 1 \in DOMAIN subscribe_map
    /\ ~subscribe_map[1].sub /\ ~subscribe_map[1].acked
    /\ output_events # <<>>
    /\ output_events[Len(output_events)] = LocalStorageAction(EvOnKeySetAck(5), ToNode(3))
    /\ fx = Fx(Unit, 0, <<>>)

\* whether a SubAck / UnsubAck event is one that acks the slot of its key
acks_subscribe_slot(event) ==
    /\ event.key \in DOMAIN subscribe_map
    /\ IF event.type = "SubAck"
       THEN subscribe_map[event.key].sub
       ELSE event.success /\ ~subscribe_map[event.key].sub

\* C28: on_event(SubAck(_, k)) sets acked = true on the subscribe slot of k
\* exactly when the slot exists with sub = true, and on_event(UnsubAck(_, k,
\* success)) exactly when success = true and the slot exists with sub = false;
\* in every other case (a SubAck after unsubscribe(k), an UnsubAck with
\* success = false or before unsubscribe, a key without a slot) no slot changes.
\* Neither changes any other field of a slot, appends an action, takes a request
\* id or invokes a handler. So after a late SubAck the slot of an unsubscribed
\* key is still not acked, and the next tick() sends Unsub again.
C28_SubAckUnsubAck ==
    [][/\ \A k \in Keys : \A event \in SubAckInputs(k) :
            on_event(2, event)
            => /\ subscribe_map' =
                    IF acks_subscribe_slot(event)
                    THEN [subscribe_map EXCEPT ![k].acked = TRUE]
                    ELSE subscribe_map
               /\ UNCHANGED <<output_events, req_id_seed, data, get_queue>>
               /\ fx'.handler = <<>>
       /\ \A k \in Keys :
            (/\ k \in DOMAIN subscribe_map
             /\ ~subscribe_map[k].sub /\ ~subscribe_map[k].acked
             /\ TickStep)
            => \E i \in DOMAIN new_events :
                    /\ new_events[i].ev.type = "Unsub" /\ new_events[i].ev.key = k
                    /\ new_events[i].rule = ToKey(k)]_vars
\* key 1 was subscribed, acked and unsubscribed (requests 0 and 1); acks came
\* that do not count, and the tick has sent Unsub again (request 2): the slot
\* is still not acked
C28_Witness ==
    /\ 1 \in DOMAIN subscribe_map
    /\ ~subscribe_map[1].sub /\ ~subscribe_map[1].acked
    /\ req_id_seed = 3
    /\ output_events # <<>>
    /\ output_events[Len(output_events)] = LocalStorageAction(EvUnsub(2, 1), ToKey(1))

\* the request ids under which callback c waits in get_queue
waiting_reqs(c) == {req \in DOMAIN get_queue : get_queue[req].callback = c}

\* C29: no callback of a get() is ever invoked twice. A callback is invoked only
\* while its GetSlot is in get_queue, and the call removes the slot: by
\* on_event(GetAck(req, _, value)) with the get's request id, with Ok(value), or
\* by a tick() that times the slot out, with Err(Timeout). A GetAck whose
\* request id has no GetSlot (never issued, already answered, or timed out)
\* invokes nothing and changes no field of the agent.
C29_GetCallbackAtMostOnce ==
    /\ [](\A c \in DOMAIN cb_results :
            /\ Len(cb_results[c]) <= 1
            /\ Cardinality(waiting_reqs(c)) <= 1
            /\ waiting_reqs(c) # {} => cb_results[c] = <<>>)
    /\ [][/\ \A event \in GetAckInputs :
                on_event(2, event)
                => IF event.req \in DOMAIN get_queue
                   THEN LET c == get_queue[event.req].callback
                        IN  /\ cb_results' = [cb_results EXCEPT ![c] = <<<<"Ok", event.value>>>>]
                            /\ event.req \notin DOMAIN get_queue'
                   ELSE UNCHANGED <<timer_now, req_id_seed, version_seed, data,
                                    subscribe_map, output_events, get_queue, cb_results>>
          /\ \A c \in DOMAIN cb_results :
                cb_results'[c] # cb_results[c]
                => /\ cb_results[c] = <<>>
                   /\ Len(cb_results'[c]) = 1
                   /\ waiting_reqs(c) # {}
                   /\ \A req \in waiting_reqs(c) : req \notin DOMAIN get_queue'
                   /\ \/ cb_results'[c][1][1] = "Ok"
                         /\ \E event \in GetAckInputs :
                                event.req \in waiting_reqs(c) /\ on_event(2, event)
                      \/ cb_results'[c][1] = <<"Err", "Timeout">> /\ TickStep]_vars
\* two get() calls: the first was answered by a GetAck with a value, the second
\* timed out; both slots are gone
C29_Witness ==
    /\ Len(cb_results) = 2
    /\ cb_results[1] = <<<<"Ok", Some(<<"a", 0, 9>>)>>>>
    /\ cb_results[2] = <<<<"Err", "Timeout">>>>
    /\ get_queue = <<>>

\* the version of the newest Set action for key k among evs
last_set_version(evs, k) ==
    LET is == events_for(evs, {"Set"}, k)
        last == CHOOSE i \in is : \A j \in is : j <= i
    IN  evs[last].ev.version

\* C31: set(k, v, ex) puts in k's place the DataSlot {Some(v), ex, the version
\* just generated, last_sync = 0, acked = false}, whether k had a slot or not,
\* and appends Set(req, k, v, version, ex) routed ToKey(k); del(k) on a key with
\* a slot sets value = None, last_sync = 0, acked = false, leaves ex and version
\* as they are and appends Del(req, k, slot.version) routed ToKey(k); no call but
\* set(k) changes the version of k's slot. So the version a Del carries is the
\* version of the newest Set queued for k (nothing is popped in these runs).
C31_SetAndDelEffects ==
    [][/\ \A k \in Keys, in \in SetInputs :
            set(k, in[1], in[2]) =>
                LET v == gen_version_int(timer_now, version_seed).version
                IN  /\ k \in DOMAIN data'
                    /\ data'[k] = [value |-> Some(in[1]), ex |-> in[2], version |-> v,
                                   last_sync |-> 0, acked |-> FALSE]
                    /\ \A o \in DOMAIN data \ {k} : o \in DOMAIN data' /\ data'[o] = data[o]
                    /\ output_events' = Append(output_events,
                            LocalStorageAction(EvSet(req_id_seed, k, in[1], v, in[2]), ToKey(k)))
       /\ \A k \in DOMAIN data :
            del(k) =>
                /\ DOMAIN data' = DOMAIN data
                /\ data'[k] = [value |-> None, ex |-> data[k].ex, version |-> data[k].version,
                               last_sync |-> 0, acked |-> FALSE]
                /\ \A o \in DOMAIN data \ {k} : data'[o] = data[o]
                /\ output_events' = Append(output_events,
                        LocalStorageAction(EvDel(req_id_seed, k, data[k].version), ToKey(k)))
                /\ events_for(output_events, {"Set"}, k) # {}
                /\ data[k].version = last_set_version(output_events, k)
       /\ \A k \in DOMAIN data \cap DOMAIN data' :
            data'[k].version # data[k].version => \E in \in SetInputs : set(k, in[1], in[2])
      ]_vars
\* key 1 was set twice and then deleted: the Del carries the version of the
\* second Set, which is not the version of the first
C31_Witness ==
    /\ Len(output_events) = 3
    /\ output_events[1].ev.type = "Set" /\ output_events[2].ev.type = "Set"
    /\ output_events[3].ev.type = "Del"
    /\ output_events[3].ev.version = output_events[2].ev.version
    /\ output_events[3].ev.version # output_events[1].ev.version
    /\ 1 \in DOMAIN data /\ data[1].value = None /\ ~data[1].acked
    /\ data[1].version = output_events[2].ev.version

\* the request ids of the Set/Get/Del/Sub/Unsub actions of evs, in queue order
request_kinds == {"Set", "Get", "Del", "Sub", "Unsub"}
req_ids_of(evs) ==
    LET IsRequest(a) == a.ev.type \in request_kinds
        reqs == SelectSeq(evs, IsRequest)
    IN  [i \in DOMAIN reqs |-> reqs[i].ev.req]
strictly_increasing(s) == \A i, j \in DOMAIN s : i < j => s[i] < s[j]

\* C32: request ids come from a counter that starts at 0 and goes up by one with
\* each id handed out: set, get, del, unsubscribe and a subscribe on a key without
\* a slot each take one, a tick() takes one for each action it queues or more.
\* The Set/Get/Del/Sub/Unsub actions a call queues (those a tick() sends again
\* or for a resync as well) carry ids taken by that call, in rising order, so
\* each is greater than the id of every such action queued before; the ids of
\* the waiting actions rise along the queue and lie below the counter; and a
\* get() never takes the id of a GetSlot that is still waiting.
C32_ReqIdsIncrease ==
    /\ req_id_seed = 0
    /\ [](/\ strictly_increasing(req_ids_of(output_events))
          /\ \A r \in Range(req_ids_of(output_events)) \cup DOMAIN get_queue : r < req_id_seed)
    /\ [][/\ req_id_seed' >= req_id_seed
          /\ LET ids == req_ids_of(new_events)
             IN  /\ strictly_increasing(ids)
                 /\ \A r \in Range(ids) : req_id_seed <= r /\ r < req_id_seed'
                 /\ TickStep => Len(ids) <= req_id_seed' - req_id_seed
          /\ (\/ \E k \in Keys, in \in SetInputs : set(k, in[1], in[2])
              \/ \E k \in Keys : del(k) \/ unsubscribe(k)
              \/ \E k \in Keys \ DOMAIN subscribe_map, in \in SubInputs :
                    subscribe(k, in[1], in[2])
              \/ \E k \in Keys, timeout_ms \in TimeoutInputs, overflow_checks \in BOOLEAN :
                    get(k, timeout_ms, overflow_checks))
             => req_id_seed' = req_id_seed + 1
          /\ \A r \in DOMAIN get_queue' \ DOMAIN get_queue :
                /\ r = req_id_seed
                /\ DOMAIN get_queue' = DOMAIN get_queue \cup {r}
                /\ \A o \in DOMAIN get_queue : get_queue'[o] = get_queue[o]]_vars
\* two gets wait under the ids 0 and 1, their Get actions queued in that order
C32_Witness ==
    /\ DOMAIN get_queue = {0, 1}
    /\ req_ids_of(output_events) = <<0, 1>>
    /\ output_events[1].ev.type = "Get" /\ output_events[2].ev.type = "Get"
    /\ req_id_seed = 2

\* C33: every call that leaves at least one new action in the output queue
\* (on_event(OnKeySet / OnKeyDel), which queues an ack, and tick(), which queues
\* what it sends again, among them) calls awake_notify.notify() during the call.
C33_NotifyWheneverActionQueued ==
    [][Len(output_events') > Len(output_events) => fx'.notified >= 1]_vars

----------------------------------------------------------------------------
(* Properties of the TCP connection: the sending task and the receiver *)

\* C34: the first write of the sending task is Ping(now_ms): until the task
\* has made it, nothing is on the socket and no event is taken from either queue,
\* whatever send() and the receiver have queued; the write that goes through
\* leaves Ping(now_ms) as the only frame on the socket, and frames are only ever
\* added behind it. Every tick of the task's interval after that writes one more
\* Ping(now_ms).
C34_FirstFrameIsPing ==
    /\ [](task = "start" => wire_out = <<>>)
    /\ [](task = "loop" => ENABLED task_tick(TRUE))
    /\ [][/\ IsPrefix(wire_out, wire_out')
          /\ task = "start" =>
                /\ IsPrefix(r_queue, r_queue') /\ IsPrefix(unr_queue, unr_queue')
                /\ wire_out' # wire_out =>
                        wire_out' = <<TcpMsg_Ping(tcp_now)>> /\ task' = "loop"
          /\ task_first_ping(TRUE) => wire_out' = <<TcpMsg_Ping(tcp_now)>>
          /\ task_tick(TRUE) =>
                /\ wire_out' = Append(wire_out, TcpMsg_Ping(tcp_now))
                /\ UNCHANGED <<r_queue, unr_queue, task>>]_vars
\* the socket holds the first Ping, a Reliable message behind it and then the
\* Ping of a tick; a Pong waits in the reliable queue
C34_Witness ==
    /\ Len(wire_out) = 3
    /\ wire_out[1] = TcpMsg_Ping(0)
    /\ wire_out[2] = TcpMsg_Msg(0, ConnectionMsg("Reliable", 0))
    /\ wire_out[3].type = "Ping"
    /\ r_queue # <<>> /\ Head(r_queue).type = "Msg" /\ Head(r_queue).msg.type = "Pong"

\* C35: when a write of the sending task to the socket fails, the task goes to
\* Closing: it shuts the stream down and ends, and writes no frame after that.
C35_WriteFailureCloses ==
    [][(\/ task_first_ping(FALSE)
        \/ task_recv_reliable(FALSE) /\ r_recv(r_queue).ev.type = "Msg"
        \/ task_recv_unreliable(FALSE) /\ r_recv(unr_queue).ev.type = "Msg")
       => task' = "done"]_vars

\* the sending task takes ev from one of its queues in this step
task_takes(ev) ==
    /\ task = "loop"
    /\ \/ r_queue # <<>> /\ Head(r_queue) = ev /\ r_queue' = Tail(r_queue)
          /\ unr_queue' = unr_queue
       \/ unr_queue # <<>> /\ Head(unr_queue) = ev /\ unr_queue' = Tail(unr_queue)
          /\ r_queue' = r_queue

\* C36: when the sending task takes CloseRequest (local close) or ClosedNotify
\* (remote close) from its queues it shuts the stream down in both directions
\* and ends; once ended it stays ended and nothing is written to the socket
\* again; send() and close() called after that return to the caller.
C36_CloseStateMachine ==
    /\ []((task = "done" /\ sender_alive) =>
            /\ \A kind \in SendInputs : ENABLED send(0, kind)
            /\ ENABLED close)
    /\ [][/\ (task_takes(CloseRequest) \/ task_takes(ClosedNotify)) =>
                /\ task' = "done"
                /\ socket' = "shutdown"
          /\ task = "done" => task' = "done" /\ wire_out' = wire_out]_vars

\* C37: on Pong(t0) with t0 <= now_ms, poll() returns a Stats event whose rtt_ms
\* is now_ms - t0 held to the u16 range, min(now_ms - t0, 65535): a round trip
\* of more than 65535 ms gives 65535.
C37_RttClamped ==
    [][\A t0 \in RttSentInputs :
        (t0 <= tcp_now /\ \E overflow_checks \in BOOLEAN :
                            poll(TcpMsg_Pong(t0), overflow_checks))
        => LET rtt == tcp_now - t0
           IN  poll_ret' = <<"Ok", [type |-> "Stats",
                                   rtt_ms |-> IF rtt < U16Mod - 1 THEN rtt
                                              ELSE U16Mod - 1]>>]_vars

\* poll() has returned Err(()): every further poll() can run and returns Err(())
poll_again_is_err ==
    poll_ret = <<"Err">> =>
        /\ ENABLED (poll(Eof, FALSE) /\ poll_ret' = <<"Err">>)
        /\ ~ENABLED (\E frame \in FrameInputs, overflow_checks \in BOOLEAN :
                        poll(frame, overflow_checks) /\ poll_ret' # <<"Err">>)

----------------------------------------------------------------------------
(* Properties of the virtual network fabric *)

\* the connection ids that a create_outgoing() call hands out in the state
allocated_ids ==
    {ConnId_from_out(VNET_PROTOCOL_ID, conn_id_seed),
     ConnId_from_in(VNET_PROTOCOL_ID, conn_id_seed + 1)}
\* the connection id an event is about
event_conn(ev) == IF ev.type \in {"Outgoing", "Incoming"} THEN ev.sender.conn_id ELSE ev.conn
\* every event sent so far, on any listener
all_events == UNION {Range(listeners[l].events) : l \in DOMAIN listeners}
\* the events of an error kind
error_events(err) == {ev \in all_events : ev.type = "OutgoingErr" /\ ev.err = err}

\* C18: create_outgoing(from_port, to_node, to_port) with from_port registered
\* (its listener not dropped) and to_port not registered appends exactly one
\* OutgoingErr(to_node, conn, DestinationNotFound), conn one of the ids of the
\* call, to the originator's listener and nothing to any other listener; it
\* spawns no task and records no connection, and no OutgoingRequest,
\* IncomingRequest, Outgoing or Incoming event ever carries an id of that call.
C18_DestinationNotFound ==
    /\ [][\A from_port \in VPorts, to_node \in VNodes, to_port \in VPorts :
            (/\ from_port \in DOMAIN ports
             /\ to_port \notin DOMAIN ports
             /\ ~listener_closed(ports[from_port].sender)
             /\ create_outgoing(from_port, to_node, to_port))
            => LET l == ports[from_port].sender
               IN  /\ \E conn \in allocated_ids :
                        listeners'[l].events =
                            Append(listeners[l].events,
                                   OutgoingErr(to_node, conn, "DestinationNotFound"))
                   /\ \A l2 \in DOMAIN listeners : l2 # l => listeners'[l2] = listeners[l2]
                   /\ UNCHANGED <<attempts, connections, ports>>]_vars
    /\ [](\A ev \in error_events("DestinationNotFound") :
            \A other \in all_events :
                other.type # "OutgoingErr" =>
                    event_conn(other).uuid \notin {ev.conn.uuid, ev.conn.uuid - 1})
\* node 1 asked for node 2 on port 200, which nobody has registered: its listener
\* holds the one error event, and no task was spawned
C18_Witness ==
    /\ 100 \in DOMAIN ports /\ 200 \notin DOMAIN ports
    /\ listeners[ports[100].sender].events =
            <<OutgoingErr(2, ConnId_from_in(VNET_PROTOCOL_ID, 1), "DestinationNotFound")>>
    /\ attempts = <<>>
    /\ outgoing_ret = <<"Some", ConnId_from_out(VNET_PROTOCOL_ID, 0)>>

\* C19: create_outgoing(from_port, to_node, to_port) with from_port registered
\* (its listener not dropped) and another port to_port registered by a node other
\* than to_node appends exactly one OutgoingErr(to_node, conn, AuthenticationError),
\* conn one of the ids of the call, to the originator's listener; the target's
\* listener, and every other, gets nothing; no task with its acceptors is spawned
\* and no connection is recorded.
C19_AuthenticationError ==
    [][\A from_port \in VPorts, to_node \in VNodes, to_port \in VPorts :
            (/\ from_port \in DOMAIN ports
             /\ to_port \in DOMAIN ports
             /\ from_port # to_port
             /\ ports[to_port].node # to_node
             /\ ~listener_closed(ports[from_port].sender)
             /\ create_outgoing(from_port, to_node, to_port))
            => LET l == ports[from_port].sender
               IN  /\ \E conn \in allocated_ids :
                        listeners'[l].events =
                            Append(listeners[l].events,
                                   OutgoingErr(to_node, conn, "AuthenticationError"))
                   /\ \A l2 \in DOMAIN listeners : l2 # l => listeners'[l2] = listeners[l2]
                   /\ UNCHANGED <<attempts, connections, ports>>]_vars
\* node 1 asked for node 3 on port 200, which node 2 has registered: node 1's
\* listener holds the one error event, node 2's listener holds nothing
C19_Witness ==
    /\ 100 \in DOMAIN ports /\ 200 \in DOMAIN ports
    /\ ports[200].node = 2
    /\ listeners[ports[100].sender].events =
            <<OutgoingErr(3, ConnId_from_out(VNET_PROTOCOL_ID, 0), "AuthenticationError")>>
    /\ listeners[ports[200].sender].events = <<>>
    /\ attempts = <<>>

\* the events of a kind about a connection id, over all listeners, counted with
\* their places
events_about(type, conn) ==
    {<<l, i>> \in (DOMAIN listeners) \X (1..(2 * MaxConnIdSeed)) :
        /\ i \in DOMAIN listeners[l].events
        /\ listeners[l].events[i].type = type
        /\ event_conn(listeners[l].events[i]) = conn}
both_accepted(a) ==
    IF a \in DOMAIN attempts
    THEN attempts[a].outgoing_res = Accept /\ attempts[a].incoming_res = Accept
    ELSE FALSE
\* the task of attempt a is spawned and is in the given state / has left it
task_waiting(a) == IF a \in DOMAIN attempts THEN attempts[a].state = "waiting" ELSE FALSE
task_over(a) == IF a \in DOMAIN attempts THEN attempts[a].state # "waiting" ELSE FALSE

\* C20: a create_outgoing() that passes the port and node checks (listeners not
\* dropped) appends OutgoingRequest to the originator's listener and
\* IncomingRequest to the target's. Once both acceptors are resolved Ok the
\* spawned task runs in the end, and, the listeners not dropped, appends exactly
\* one Outgoing to the originator's listener and exactly one Incoming to the
\* target's: two connection objects that are cross-wired (each sender writes into
\* the channel the other side's receiver reads, one channel per direction), each
\* with the other side's node as remote_node_id and with first Stats rtt_ms = 1,
\* send_est_kbps = 100000. No attempt ever has more than one Outgoing or more
\* than one Incoming event.
C20_PairedConnection ==
    /\ [][/\ \A from_port \in VPorts, to_node \in VNodes, to_port \in VPorts :
                (/\ from_port \in DOMAIN ports /\ to_port \in DOMAIN ports
                 /\ from_port # to_port
                 /\ ports[to_port].node = to_node
                 /\ ~listener_closed(ports[from_port].sender)
                 /\ ~listener_closed(ports[to_port].sender)
                 /\ create_outgoing(from_port, to_node, to_port))
                => LET from == ports[from_port].sender
                       to == ports[to_port].sender
                       a == Len(attempts) + 1
                   IN  /\ listeners'[from].events = Append(listeners[from].events,
                            OutgoingRequest(to_node,
                                ConnId_from_out(VNET_PROTOCOL_ID, conn_id_seed),
                                <<a, "outgoing">>))
                       /\ listeners'[to].events = Append(listeners[to].events,
                            IncomingRequest(ports[from_port].node,
                                ConnId_from_in(VNET_PROTOCOL_ID, conn_id_seed + 1),
                                <<a, "incoming">>))
          /\ \A a \in DOMAIN attempts :
                (/\ both_accepted(a)
                 /\ ~listener_closed(attempts[a].from_socket.sender)
                 /\ ~listener_closed(attempts[a].to_socket.sender)
                 /\ attempt_task(a))
                => LET t == attempts[a]
                       from == t.from_socket.sender
                       to == t.to_socket.sender
                   IN  /\ Len(listeners'[from].events) = Len(listeners[from].events) + 1
                       /\ Len(listeners'[to].events) = Len(listeners[to].events) + 1
                       /\ \A l \in DOMAIN listeners :
                            l \notin {from, to} => listeners'[l] = listeners[l]
                       /\ LET out == listeners'[from].events[Len(listeners'[from].events)]
                              in == listeners'[to].events[Len(listeners'[to].events)]
                          IN  /\ out.type = "Outgoing" /\ in.type = "Incoming"
                              /\ out.sender.conn_id = t.conn_id_out
                              /\ out.receiver.conn_id = t.conn_id_out
                              /\ in.sender.conn_id = t.conn_id_in
                              /\ in.receiver.conn_id = t.conn_id_in
                              /\ out.sender.remote_sender = in.receiver.recv
                              /\ in.sender.remote_sender = out.receiver.recv
                              /\ out.sender.sender = out.receiver.recv
                              /\ in.sender.sender = in.receiver.recv
                              /\ out.receiver.recv # in.receiver.recv
                              /\ out.sender.remote_node_id = t.to_socket.node
                              /\ out.receiver.remote_node_id = t.to_socket.node
                              /\ in.sender.remote_node_id = t.from_socket.node
                              /\ in.receiver.remote_node_id = t.from_socket.node
                              /\ \A r \in {out.receiver, in.receiver} :
                                    /\ r.first_stats # None
                                    /\ r.first_stats[1].rtt_ms = 1
                                    /\ r.first_stats[1].send_est_kbps = 100000]_vars
    /\ [](\A a \in DOMAIN attempts :
            /\ Cardinality(events_about("Outgoing", attempts[a].conn_id_out)) <= 1
            /\ Cardinality(events_about("Incoming", attempts[a].conn_id_in)) <= 1)
    /\ \A a \in 1..(MaxConnIdSeed \div 2) :
            (both_accepted(a) /\ task_waiting(a)) ~> task_over(a)
\* node 1 on port 100 and node 2 on port 200 are connected: after the two
\* requests, node 1's listener holds the Outgoing event and node 2's the
\* Incoming event of the first attempt
C20_Witness ==
    /\ 100 \in DOMAIN ports /\ 200 \in DOMAIN ports
    /\ Len(attempts) = 1
    /\ both_accepted(1) /\ attempts[1].state = "done"
    /\ LET from == listeners[ports[100].sender].events
           to == listeners[ports[200].sender].events
       IN  /\ Len(from) = 2 /\ Len(to) = 2
           /\ from[1].type = "OutgoingRequest" /\ from[2] = outgoing_pair(1, attempts[1])
           /\ to[1].type = "IncomingRequest" /\ to[2] = incoming_pair(1, attempts[1])
           /\ from[2].sender.remote_node_id = 2 /\ to[2].sender.remote_node_id = 1


\* an acceptor of attempt a was resolved with a rejection
is_rejection(res) == Len(res) = 2 /\ res[1] = "Err"
rejected(a) ==
    IF a \in DOMAIN attempts
    THEN is_rejection(attempts[a].outgoing_res) \/ is_rejection(attempts[a].incoming_res)
    ELSE FALSE
\* the task of attempt a has both results (a dropped acceptor is a result)
both_resolved(a) ==
    IF a \in DOMAIN attempts
    THEN attempts[a].outgoing_res # <<>> /\ attempts[a].incoming_res # <<>>
    ELSE FALSE
\* the reason the task must report: the outgoing side's when that side rejected
rejection_reason(t) ==
    IF is_rejection(t.outgoing_res) THEN t.outgoing_res[2] ELSE t.incoming_res[2]

\* C21: when an acceptor of an attempt was resolved with a rejection, the step
\* of the spawned task (it runs once it has both results; the originator's
\* listener not dropped) appends exactly one
\* OutgoingErr(to_node, conn_id_out, BehaviorRejected(reason)) to the
\* originator's listener and nothing to any other; reason is the outgoing
\* side's when that side rejected, the incoming side's otherwise. No Outgoing
\* and no Incoming event is ever there for such an attempt, never more than one
\* OutgoingErr, and the task, both results in, runs in the end.
C21_RejectionReported ==
    /\ [][\A a \in DOMAIN attempts :
            (/\ rejected(a)
             /\ ~listener_closed(attempts[a].from_socket.sender)
             /\ attempt_task(a))
            => LET t == attempts[a]
                   from == t.from_socket.sender
               IN  /\ listeners'[from].events =
                        Append(listeners[from].events,
                               OutgoingErr(t.to_node, t.conn_id_out,
                                           BehaviorRejected(rejection_reason(t))))
                   /\ \A l \in DOMAIN listeners : l # from => listeners'[l] = listeners[l]
                   /\ attempts'[a].state = "done"]_vars
    /\ [](\A a \in DOMAIN attempts :
            rejected(a) =>
                /\ events_about("Outgoing", attempts[a].conn_id_out) = {}
                /\ events_about("Incoming", attempts[a].conn_id_in) = {}
                /\ Cardinality(events_about("OutgoingErr", attempts[a].conn_id_out)) <= 1)
    /\ \A a \in 1..(MaxConnIdSeed \div 2) :
            (rejected(a) /\ both_resolved(a) /\ task_waiting(a)) ~> task_over(a)
\* both sides rejected the first attempt of node 1 on port 100 towards node 2 on
\* port 200: node 1's listener holds the request and then the error with the
\* outgoing side's reason, node 2's listener holds the request only
C21_Witness ==
    /\ 100 \in DOMAIN ports /\ 200 \in DOMAIN ports
    /\ Len(attempts) = 1
    /\ attempts[1].outgoing_res = Reject(<<"Custom", "r1">>)
    /\ attempts[1].incoming_res = Reject(<<"Custom", "r2">>)
    /\ attempts[1].state = "done"
    /\ LET from == listeners[ports[100].sender].events
           to == listeners[ports[200].sender].events
       IN  /\ Len(from) = 2 /\ Len(to) = 1
           /\ from[1].type = "OutgoingRequest"
           /\ from[2] = OutgoingErr(2, ConnId_from_out(VNET_PROTOCOL_ID, 0),
                                    BehaviorRejected(<<"Custom", "r1">>))
           /\ to[1].type = "IncomingRequest"

\* C22: over any interleaving of the steps of create_outgoing() calls on several
\* threads, no two ConnIds ever made (outgoing or incoming, of one call or of
\* two) hold the same counter value, and the two ids held by a call differ; the
\* counter is past every value handed out.
C22_ConnIdsUnique ==
    /\ \A i, j \in DOMAIN allocated : i # j => allocated[i].uuid # allocated[j].uuid
    /\ \A i \in DOMAIN allocated : allocated[i].uuid < conn_id_seed
    /\ \A th \in Threads :
            calls[th].pc = "route" => calls[th].conn_id_out.uuid # calls[th].conn_id_in.uuid
\* two calls interleaved: thread 1 took 0, thread 2 took 1, then thread 1 took 2
\* and thread 2 took 3; both are about to send their events
C22_Witness ==
    /\ calls[1].pc = "route" /\ calls[2].pc = "route"
    /\ calls[1].conn_id_out.uuid = 0 /\ calls[2].conn_id_out.uuid = 1
    /\ calls[1].conn_id_in.uuid = 2 /\ calls[2].conn_id_in.uuid = 3
    /\ Len(allocated) = 4

----------------------------------------------------------------------------
(* Properties of the mock transport *)

\* the connection id returned by the i-th connect_to() call
returned_id(i) == connect_log[i].ret[2].connection_id

\* C23 as stated: connect_to() can always be called on a handle and returns
\* Ok(PendingOutgoing{connection_id}) in its one step, with one ConnectTo(peer,
\* addr) appended to the output; the ids returned by successive calls, on any
\* handles of the transport, are strictly increasing.
C23_ConnectIdsIncrease ==
    /\ [][\A c \in 1..MaxConnectors, in \in ConnectInputs :
            connect_to(c, in[1], in[2])
            => /\ mock_output' = Append(mock_output, ConnectTo(in[1], in[2]))
               /\ connect_log'[Len(connect_log')].ret[1] = "Ok"]_vars
    /\ [](\A i, j \in DOMAIN connect_log : i < j => lt_u32(returned_id(i), returned_id(j)))

\* C23, amended: connect_to() can always be called on a handle and returns
\* Ok(PendingOutgoing{connection_id}) in its one step, with exactly one
\* ConnectTo(peer, addr) appended to the output and nothing else touched; the id
\* returned is the value of the counter shared by all handles, which the call
\* advances by one modulo 2^32: the ids of successive calls are strictly
\* increasing as long as no call has returned u32::MAX, and the call after that
\* one returns 0.
C23_ConnectIdsIncreaseUntilWrap ==
    /\ [][\A c \in 1..MaxConnectors, in \in ConnectInputs :
            connect_to(c, in[1], in[2])
            => /\ mock_output' = Append(mock_output, ConnectTo(in[1], in[2]))
               /\ Len(connect_log') = Len(connect_log) + 1
               /\ connect_log'[Len(connect_log')].ret =
                    Ok(TransportPendingOutgoing(mock_conn_id))
               /\ UNCHANGED connectors]_vars
    /\ [](\A c \in 1..connectors : ENABLED connect_to(c, 1, "addr1"))
    /\ [](\A i \in DOMAIN connect_log :
            /\ i + 1 \in DOMAIN connect_log =>
                    returned_id(i + 1) = fetch_add_u32(returned_id(i))
            /\ \A j \in DOMAIN connect_log :
                    (/\ i < j
                     /\ \A k \in i..(j - 1) : returned_id(k) # <<U16Mod - 1, U16Mod - 1>>)
                    => lt_u32(returned_id(i), returned_id(j)))
\* three calls on two handles of a fresh transport returned 0, 1 and 2, and the
\* output holds their three ConnectTo records
C23_Witness ==
    /\ Len(connect_log) = 3 /\ Len(mock_output) = 3
    /\ connect_log[1].connector = 1 /\ connect_log[2].connector = 2
    /\ returned_id(1) = <<0, 0>> /\ returned_id(2) = <<0, 1>> /\ returned_id(3) = <<0, 2>>
    /\ mock_output[2] = ConnectTo(connect_log[2].peer_id, connect_log[2].dest)

\* C39: every event about a connection attempt carries the ConnId under which its
\* recipient knows the attempt: the events that create_outgoing() puts on the
\* originator's listener (OutgoingRequest, or OutgoingErr with
\* DestinationNotFound or AuthenticationError) carry the outgoing ConnId that the
\* call returns, the Outgoing and OutgoingErr(BehaviorRejected) of the task carry
\* an outgoing ConnId too, and on every listener the OutgoingRequest or
\* IncomingRequest of an attempt stands before its Outgoing, Incoming or
\* OutgoingErr(BehaviorRejected).
C39_EventsCarryReturnedConnId ==
    /\ [][\A from_port \in DOMAIN ports, to_node \in VNodes, to_port \in VPorts :
            (create_outgoing(from_port, to_node, to_port) /\ outgoing_ret'[1] = "Some") =>
                LET l == ports[from_port].sender
                    new == SubSeq(listeners'[l].events, Len(listeners[l].events) + 1,
                                  Len(listeners'[l].events))
                IN  \A i \in DOMAIN new :
                        new[i].type \in {"OutgoingRequest", "OutgoingErr"} =>
                            new[i].conn = outgoing_ret'[2]]_vars
    /\ [](\A l \in DOMAIN listeners :
            LET evs == listeners[l].events
            IN  \A i \in DOMAIN evs :
                    /\ evs[i].type \in {"OutgoingRequest", "Outgoing", "OutgoingErr"} =>
                            event_conn(evs[i]).direction = "out"
                    /\ (\/ evs[i].type \in {"Outgoing", "Incoming"}
                        \/ /\ evs[i].type = "OutgoingErr"
                           /\ evs[i].err # "DestinationNotFound"
                           /\ evs[i].err # "AuthenticationError") =>
                            \E j \in 1..(i - 1) :
                                /\ evs[j].type \in {"OutgoingRequest", "IncomingRequest"}
                                /\ evs[j].conn = event_conn(evs[i]))

\* C40: create_outgoing(from_port, to_node, to_port) with from_port # to_port
\* never panics: it reports each failure as an event or in its return value.
\* With from_port not registered it returns None, takes no ConnId and sends no
\* event; with the listener of the originator or of the target dropped while
\* its port is still registered it does not panic either.
C40_CreateOutgoingNeverPanics ==
    [][\A from_port \in VPorts, to_node \in VNodes, to_port \in VPorts :
        (from_port # to_port /\ create_outgoing(from_port, to_node, to_port)) =>
            /\ outgoing_ret' # <<"panic">>
            /\ from_port \notin DOMAIN ports =>
                    /\ outgoing_ret' = <<"None">>
                    /\ UNCHANGED <<conn_id_seed, listeners, connections, attempts>>]_vars
====
